---- MODULE Spec2Model ----
(***************************************************************************)
(* Model of the deal-room backend: the durable store (deals, messages,     *)
(* notifications), the socket.io rooms, the redis presence sets and message*)
(* lists, and the asynchronous handlers of src/socket.js and               *)
(* src/routes/deals.js.                                                    *)
(*                                                                         *)
(* Every handler is an async function.  Each `await` of a store or cache   *)
(* operation is two steps of the model: the operation taking effect in the *)
(* store (names ending in Find, Save, ...) and the handler resuming with   *)
(* its result and running up to its next await.  Steps of different        *)
(* handler invocations interleave freely; the synchronous code between two *)
(* awaits is one atomic step.                                              *)
(***************************************************************************)
EXTENDS Integers, Sequences, FiniteSets, TLC

VARIABLES deals, messages, notifications, rooms, presence, cacheMsgs, cacheRead,
          cacheDeal, emits, reqs, socks, listTtl

vars == <<deals, messages, notifications, rooms, presence, cacheMsgs, cacheRead,
          cacheDeal, emits, reqs, socks, listTtl>>

(***************************************************************************)
(* Bounds of the model.                                                    *)
(***************************************************************************)
MaxReqs == 2
MaxOrderReqs == 3

(***************************************************************************)
(* The universe: users with their roles, their socket connections, deals.  *)
(***************************************************************************)
NULL == "null"

Users == {"b1", "s1", "s2", "a1"}

Role(u) ==
    CASE u = "b1" -> "buyer"
      [] u = "s1" -> "seller"
      [] u = "s2" -> "seller"
      [] OTHER    -> "admin"

\* b1 is connected twice (two tabs or devices)
Conns == {"c_b1", "c_b2", "c_s1", "c_s2", "c_a1"}

ConnUser(c) ==
    CASE c = "c_b1" -> "b1"
      [] c = "c_b2" -> "b1"
      [] c = "c_s1" -> "s1"
      [] c = "c_s2" -> "s2"
      [] OTHER      -> "a1"

DealIds == {"d1", "d2"}

\* the offers of the model: the opening price and a counter-offer
Prices == {100, 90}

Statuses == {"pending", "in-progress", "completed", "cancelled"}

Terminal == {"completed", "cancelled"}

\* a status string the route's whitelist rejects
BadStatus == "archived"

(***************************************************************************)
(* Documents of the durable store.                                         *)
(***************************************************************************)
NoDoc ==
    [status |-> "none", buyer |-> NULL, seller |-> NULL, price |-> 0,
     priceHistory |-> <<>>, initiatedBy |-> NULL, v |-> 0,
     title |-> "", description |-> ""]

PriceEntry(p, u, id) == [price |-> p, user |-> u, id |-> id]

\* new Deal({...}): status defaults to "pending", __v starts at 0; id is the
\* _id of the first price entry; every deal of the model is created with
\* the title "t0" and the description "x0"
NewDeal(b, s, p, by, id) ==
    [status |-> "pending", buyer |-> b, seller |-> s, price |-> p,
     priceHistory |-> <<PriceEntry(p, b, id)>>, initiatedBy |-> by, v |-> 0,
     title |-> "t0", description |-> "x0"]

\* DealSchema's validation on save: initiatedBy is required, with no default
DealValidates(doc) == doc.initiatedBy \in {"buyer", "seller"}

Exists(d) == deals[d] # NoDoc

(***************************************************************************)
(* Handler invocations.  reqs is the sequence of invocations started so    *)
(* far; an invocation's index doubles as the id of the document, message   *)
(* or price entry it creates.                                              *)
(***************************************************************************)
NewReq(kind, u, c, d, pc) ==
    [kind |-> kind, user |-> u, conn |-> c, deal |-> d, status |-> "",
     price |-> 0, pc |-> pc, doc |-> NoDoc, setSeller |-> NULL,
     rcpt |-> NULL, out |-> "pending", saved |-> FALSE,
     title |-> "", description |-> "", msg |-> 0, result |-> {},
     from |-> "", list |-> <<>>, cacheErr |-> FALSE, storeErr |-> FALSE, failed |-> {},
     stamp |-> 0, nid |-> 0, unread |-> {}, prior |-> {},
     ndoc |-> [user |-> NULL, type |-> "", deal |-> NULL, req |-> 0,
               read |-> FALSE],
     mdoc |-> [id |-> 0, deal |-> NULL, sender |-> NULL, read |-> FALSE,
               at |-> 0]]

ReqIds == 1..Len(reqs)

\* fewer than n invocations have been started
Room(n) == Len(reqs) < n

\* no invocation is in flight
Idle == \A i \in ReqIds : reqs[i].pc = "done"

\* no invocation of the given kind is in flight
NoneInFlight(kind) ==
    \A i \in ReqIds : reqs[i].kind = kind => reqs[i].pc = "done"

\* fewer than n invocations of the given kind have been started
Fewer(kind, n) == Cardinality({i \in ReqIds : reqs[i].kind = kind}) < n

\* fewer than n invocations of the given kind are in flight
Concurrent(kind, n) ==
    Cardinality({i \in ReqIds : reqs[i].kind = kind /\ reqs[i].pc # "done"}) < n

Set(i, r) == reqs' = [reqs EXCEPT ![i] = r]

Finish(r, out) == [r EXCEPT !.pc = "done", !.out = out]

(***************************************************************************)
(* The express application settings.  server.js never calls app.set, so    *)
(* req.app.get("io") and req.app.get("redisClient") are undefined in the   *)
(* routes, and calling .to(...) on the former throws a TypeError that the  *)
(* route's catch block turns into a 500 response.                          *)
(***************************************************************************)
AppSettings == {}

\* mutant: server.js registers "io" and "redisClient" on the application
AppHasRegistered(name) == name \in {"io", "redisClient"}

AppHas(name) == name \in AppSettings

(***************************************************************************)
(* socket.io fan-out: the connections in a room at the time of the emit.   *)
(* socks[c] is the socket of the connection c: how far its handshake got   *)
(* and the user the middleware attached to it (socket.user).               *)
(***************************************************************************)
NoSock ==
    [state |-> "none", user |-> NULL, personal |-> NULL, cred |-> "none",
     found |-> FALSE]

\* mutant: the connection handler does not join the personal room
OpenSockUnjoined(u) ==
    [state |-> "open", user |-> u, personal |-> NULL, cred |-> "valid",
     found |-> TRUE]

\* a socket whose handshake passed the middleware (socket.user = user) and
\* whose connection handler ran: socket.join(`user:${socket.user._id}`)
OpenSock(u) ==
    [state |-> "open", user |-> u, personal |-> u, cred |-> "valid",
     found |-> TRUE]

Open(c) == socks[c].state = "open"

DealRoom(d) == {c \in Conns : d \in rooms[c]}

\* the sockets in the room user:<u>
UserRoom(u) == {c \in Conns : Open(c) /\ socks[c].personal = u}

Event(ev, d, to, i) == [ev |-> ev, deal |-> d, to |-> to, req |-> i]

(***************************************************************************)
(* PUT /api/deals/:id/status                                               *)
(***************************************************************************)
ValidStatus(s) == s \in {"pending", "in-progress", "completed", "cancelled"}

\* mutant: any user with the seller role may act on any deal
isAuthorizedSellers(doc, u) ==
    \/ doc.buyer = u
    \/ Role(u) = "seller"
    \/ Role(u) = "admin"

isAuthorized(doc, u) ==
    \/ doc.buyer = u
    \/ (doc.seller # NULL /\ doc.seller = u)
    \/ Role(u) = "admin"

\* mutant: the role of the requester is not looked at
MayAcceptAnyRole(s, u) == TRUE

MayAccept(s, u) == ~(s = "in-progress" /\ Role(u) # "seller" /\ Role(u) # "admin")

AssignsSeller(doc, s, u) ==
    s = "in-progress" /\ Role(u) = "seller" /\ doc.seller = NULL

\* mutant: the recipient is the buyer, whoever acts
OtherParticipantBuyer(doc, u) == doc.buyer

\* the other participant of a deal, as the handlers compute it from their
\* own copy of the deal
OtherParticipant(doc, u) == IF doc.buyer = u THEN doc.seller ELSE doc.buyer

\* mutant: the rejection of the awaited save is swallowed
AfterSaveSwallowed(ok, on) == on

\* mutant: the awaited save always rejects
AfterSaveRejects(ok, on) == "catch"

\* where a handler continues after an awaited save: on, or into its catch
AfterSave(ok, on) == IF ok THEN on ELSE "catch"

StatusStart(u, d, s) ==
    /\ reqs' = Append(reqs,
          IF ValidStatus(s)
          THEN [NewReq("status", u, "http", d, "find") EXCEPT !.status = s]
          ELSE [NewReq("status", u, "http", d, "done") EXCEPT
                    !.status = s, !.out = "400"])
    /\ UNCHANGED <<listTtl, socks, deals, messages, notifications, rooms, presence,
                   cacheMsgs, cacheRead, cacheDeal, emits>>

StatusFind(i) ==
    /\ reqs[i].kind = "status" /\ reqs[i].pc = "find"
    /\ Set(i, [reqs[i] EXCEPT !.doc = deals[reqs[i].deal], !.pc = "found"])
    /\ UNCHANGED <<listTtl, socks, deals, messages, notifications, rooms, presence,
                   cacheMsgs, cacheRead, cacheDeal, emits>>

StatusCheck(i) ==
    LET r == reqs[i] IN
    /\ r.kind = "status" /\ r.pc = "found"
    /\ Set(i,
          IF r.doc = NoDoc THEN Finish(r, "404")
          ELSE IF ~isAuthorized(r.doc, r.user) THEN Finish(r, "403")
          ELSE IF ~MayAccept(r.status, r.user) THEN Finish(r, "403")
          ELSE [r EXCEPT !.pc = "save",
                         !.setSeller =
                            IF AssignsSeller(r.doc, r.status, r.user)
                            THEN r.user ELSE NULL])
    /\ UNCHANGED <<listTtl, socks, deals, messages, notifications, rooms, presence,
                   cacheMsgs, cacheRead, cacheDeal, emits>>

\* deal.save() writes the paths the handler modified: status when it differs
\* from the loaded value, seller when the handler assigned it
StatusWrite(db, r) ==
    [db EXCEPT !.status = IF r.status # r.doc.status THEN r.status ELSE @,
               !.seller = IF r.setSeller # NULL THEN r.setSeller ELSE @]

StatusSave(i, ok) ==
    LET r == reqs[i] IN
    /\ r.kind = "status" /\ r.pc = "save"
    /\ IF ok /\ Exists(r.deal)
       THEN /\ deals' = [deals EXCEPT ![r.deal] = StatusWrite(@, r)]
            /\ Set(i, [r EXCEPT !.pc = AfterSave(TRUE, "saved"), !.saved = TRUE])
       ELSE /\ Set(i, [r EXCEPT !.pc = AfterSave(FALSE, "saved")])
            /\ UNCHANGED deals
    /\ UNCHANGED <<listTtl, socks, messages, notifications, rooms, presence, cacheMsgs, cacheRead,
                   cacheDeal, emits>>

\* the handler's own copy of the deal after its assignments
StatusLocal(r) ==
    [r.doc EXCEPT !.status = r.status,
                  !.seller = IF r.setSeller # NULL THEN r.setSeller ELSE @]

\* the tail of the route: req.app.get("io") emits to the deal room
StatusEmit(i, r) ==
    IF AppHas("io")
    THEN /\ emits' = Append(emits,
                Event("deal_status_updated", r.deal, DealRoom(r.deal), i))
         /\ Set(i, Finish(r, "200"))
    ELSE /\ Set(i, Finish(r, "500"))
         /\ UNCHANGED emits

StatusSaved(i) ==
    LET r == reqs[i]
        other == OtherParticipant(StatusLocal(r), r.user) IN
    /\ r.kind = "status" /\ r.pc = "saved"
    /\ IF other # NULL
       THEN /\ Set(i, [r EXCEPT !.pc = "notify", !.rcpt = other])
            /\ UNCHANGED emits
       ELSE StatusEmit(i, r)
    /\ UNCHANGED <<listTtl, socks, deals, messages, notifications, rooms, presence,
                   cacheMsgs, cacheRead, cacheDeal>>

\* new Notification({ user, type, dealId, read: false })
Notification(u, type, d, i) ==
    [user |-> u, type |-> type, deal |-> d, req |-> i, read |-> FALSE]

StatusNotifySave(i, ok) ==
    LET r == reqs[i] IN
    /\ r.kind = "status" /\ r.pc = "notify"
    /\ IF ok
       THEN notifications' =
               notifications \cup {Notification(r.rcpt, "status", r.deal, i)}
       ELSE UNCHANGED notifications
    /\ Set(i, [r EXCEPT !.pc = AfterSave(ok, "notified")])
    /\ UNCHANGED <<listTtl, socks, deals, messages, rooms, presence, cacheMsgs, cacheRead, cacheDeal,
                   emits>>

StatusNotified(i) ==
    LET r == reqs[i] IN
    /\ r.kind = "status" /\ r.pc = "notified"
    /\ IF AppHas("io")
       THEN /\ emits' = emits \o
                 <<Event("new_notification", r.deal, UserRoom(r.rcpt), i),
                   Event("deal_status_updated", r.deal, DealRoom(r.deal), i)>>
            /\ Set(i, Finish(r, "200"))
       ELSE /\ Set(i, Finish(r, "500"))
            /\ UNCHANGED emits
    /\ UNCHANGED <<listTtl, socks, deals, messages, notifications, rooms, presence,
                   cacheMsgs, cacheRead, cacheDeal>>

\* catch (err) { res.status(500).json({ message: "Server Error" }) }
StatusCatch(i) ==
    /\ reqs[i].kind = "status" /\ reqs[i].pc = "catch"
    /\ Set(i, Finish(reqs[i], "500"))
    /\ UNCHANGED <<listTtl, socks, deals, messages, notifications, rooms, presence,
                   cacheMsgs, cacheRead, cacheDeal, emits>>


(***************************************************************************)
(* PUT /api/deals/:id                                                      *)
(***************************************************************************)
\* mutant: only completed deals are closed to edits
FrozenCompleted(doc) == doc.status = "completed"

\* deal.status === "completed" || deal.status === "cancelled"
Frozen(doc) == doc.status = "completed" \/ doc.status = "cancelled"

\* if (title) deal.title = title; if (description) deal.description = ...
EditLocal(r) ==
    [r.doc EXCEPT !.title = IF r.title # "" THEN r.title ELSE @,
                  !.description = IF r.description # "" THEN r.description ELSE @]

\* deal.save() writes the paths whose value the handler changed
EditWrite(db, r) ==
    [db EXCEPT !.title = IF EditLocal(r).title # r.doc.title
                         THEN EditLocal(r).title ELSE @,
               !.description = IF EditLocal(r).description # r.doc.description
                               THEN EditLocal(r).description ELSE @]

EditStart(u, d, t, x) ==
    /\ reqs' = Append(reqs,
          [NewReq("edit", u, "http", d, "find") EXCEPT
               !.title = t, !.description = x])
    /\ UNCHANGED <<listTtl, socks, deals, messages, notifications, rooms, presence,
                   cacheMsgs, cacheRead, cacheDeal, emits>>

EditFind(i) ==
    /\ reqs[i].kind = "edit" /\ reqs[i].pc = "find"
    /\ Set(i, [reqs[i] EXCEPT !.doc = deals[reqs[i].deal], !.pc = "found"])
    /\ UNCHANGED <<listTtl, socks, deals, messages, notifications, rooms, presence,
                   cacheMsgs, cacheRead, cacheDeal, emits>>

EditFound(i) ==
    LET r == reqs[i] IN
    /\ r.kind = "edit" /\ r.pc = "found"
    /\ Set(i,
          IF r.doc = NoDoc THEN Finish(r, "404")
          ELSE IF ~isAuthorized(r.doc, r.user) THEN Finish(r, "403")
          ELSE IF Frozen(r.doc) THEN Finish(r, "400")
          ELSE [r EXCEPT !.pc = "save"])
    /\ UNCHANGED <<listTtl, socks, deals, messages, notifications, rooms, presence,
                   cacheMsgs, cacheRead, cacheDeal, emits>>

EditSave(i, ok) ==
    LET r == reqs[i]
        done == ok /\ Exists(r.deal) IN
    /\ r.kind = "edit" /\ r.pc = "save"
    /\ IF done
       THEN deals' = [deals EXCEPT ![r.deal] = EditWrite(@, r)]
       ELSE UNCHANGED deals
    /\ Set(i, [r EXCEPT !.pc = AfterSave(done, "saved"), !.saved = done])
    /\ UNCHANGED <<listTtl, socks, messages, notifications, rooms, presence, cacheMsgs, cacheRead,
                   cacheDeal, emits>>

\* the two populate calls have returned: res.json(deal)
EditSaved(i) ==
    /\ reqs[i].kind = "edit" /\ reqs[i].pc = "saved"
    /\ Set(i, Finish(reqs[i], "200"))
    /\ UNCHANGED <<listTtl, socks, deals, messages, notifications, rooms, presence,
                   cacheMsgs, cacheRead, cacheDeal, emits>>

EditCatch(i) ==
    /\ reqs[i].kind = "edit" /\ reqs[i].pc = "catch"
    /\ Set(i, Finish(reqs[i], "500"))
    /\ UNCHANGED <<listTtl, socks, deals, messages, notifications, rooms, presence,
                   cacheMsgs, cacheRead, cacheDeal, emits>>

(***************************************************************************)
(* io.use: the handshake of a socket, and its disconnection                *)
(***************************************************************************)
\* the credential a client presents: no token, a token jwt.verify rejects
\* (malformed, or expired), or a token jwt.verify accepts
Credentials == {"none", "malformed", "expired", "valid"}

\* jwt.verify(token, secret) returns the payload or throws
Verifies(cred) == cred = "valid"

\* The middleware up to its await: a missing token and a token that does not
\* verify end the attempt with next(new Error(...)); otherwise the user the
\* token names is looked up.
ConnectStart(c, cred) ==
    /\ socks[c].state = "none"
    /\ socks' = [socks EXCEPT ![c] =
          [@ EXCEPT !.cred = cred,
                    !.state = IF cred # "none" /\ Verifies(cred)
                              THEN "lookup" ELSE "refused"]]
    /\ UNCHANGED <<listTtl, deals, messages, notifications, rooms, presence,
                   cacheMsgs, cacheRead, cacheDeal, emits, reqs>>

\* User.findById(decoded.id) has returned: without a user the attempt ends
\* with an error; with one the user is attached, next() admits the socket
\* and the connection handler joins it to its personal room
ConnectLookup(c, found) ==
    /\ socks[c].state = "lookup"
    /\ socks' = [socks EXCEPT ![c] =
          IF found THEN OpenSock(ConnUser(c))
          ELSE [@ EXCEPT !.state = "refused"]]
    /\ UNCHANGED <<listTtl, deals, messages, notifications, rooms, presence,
                   cacheMsgs, cacheRead, cacheDeal, emits, reqs>>

\* the listeners of a socket are registered by the connection handler: the
\* events of a socket that was not admitted are handled by nothing
Handles(c) == Open(c)

\* mutant: the disconnect listener also removes the user from the presence
\* sets
DisconnectClearsPresence(c) ==
    /\ Open(c)
    /\ socks' = [socks EXCEPT ![c] = [@ EXCEPT !.state = "closed",
                                               !.personal = NULL]]
    /\ rooms' = [rooms EXCEPT ![c] = {}]
    /\ presence' = [d \in DealIds |-> presence[d] \ {socks[c].user}]
    /\ UNCHANGED <<listTtl, deals, messages, notifications, cacheMsgs, cacheRead, cacheDeal,
                   emits, reqs>>

\* The connection drops: socket.io takes the socket out of all its rooms;
\* the program's disconnect listener only logs.  Handlers of the socket
\* that are suspended at an await go on.
Disconnect(c) ==
    /\ Open(c)
    /\ socks' = [socks EXCEPT ![c] = [@ EXCEPT !.state = "closed",
                                               !.personal = NULL]]
    /\ rooms' = [rooms EXCEPT ![c] = {}]
    /\ UNCHANGED <<listTtl, deals, messages, notifications, presence, cacheMsgs, cacheRead,
                   cacheDeal, emits, reqs>>

(***************************************************************************)
(* socket.on("join_deal") and socket.on("leave_deal")                      *)
(***************************************************************************)
\* mutant: the seller is not compared with the connection's user
isParticipantOfAnySeller(doc, u) ==
    \/ doc.buyer = u
    \/ doc.seller # NULL

isParticipant(doc, u) ==
    \/ doc.buyer = u
    \/ (doc.seller # NULL /\ doc.seller = u)

MayJoin(doc, u) == isParticipant(doc, u) \/ Role(u) = "admin"

\* socket.emit("error", { message }): to the calling connection only
ErrorTo(i, r, msg) ==
    /\ emits' = Append(emits,
           Event("error", r.deal, {c \in {r.conn} : Open(c)}, i))
    /\ Set(i, Finish(r, msg))

JoinStart(c, d) ==
    /\ reqs' = Append(reqs, NewReq("join", ConnUser(c), c, d, "find"))
    /\ UNCHANGED <<listTtl, socks, deals, messages, notifications, rooms, presence,
                   cacheMsgs, cacheRead, cacheDeal, emits>>

JoinFind(i) ==
    /\ reqs[i].kind = "join" /\ reqs[i].pc = "find"
    /\ Set(i, [reqs[i] EXCEPT !.doc = deals[reqs[i].deal], !.pc = "found"])
    /\ UNCHANGED <<listTtl, socks, deals, messages, notifications, rooms, presence,
                   cacheMsgs, cacheRead, cacheDeal, emits>>

JoinFound(i) ==
    LET r == reqs[i] IN
    /\ r.kind = "join" /\ r.pc = "found"
    /\ IF r.doc = NoDoc
       THEN ErrorTo(i, r, "Deal not found") /\ UNCHANGED rooms
       ELSE IF ~MayJoin(r.doc, r.user)
       THEN ErrorTo(i, r, "Not authorized to join this deal") /\ UNCHANGED rooms
       ELSE /\ rooms' = [rooms EXCEPT ![r.conn] = @ \cup {r.deal}]
            /\ Set(i, [r EXCEPT !.pc = "sadd"])
            /\ UNCHANGED emits
    /\ UNCHANGED <<listTtl, socks, deals, messages, notifications, presence, cacheMsgs, cacheRead,
                   cacheDeal>>

\* redisClient.sadd(`deal:${dealId}:users`, userId)
JoinSAdd(i, ok) ==
    LET r == reqs[i] IN
    /\ r.kind = "join" /\ r.pc = "sadd"
    /\ IF ok
       THEN presence' = [presence EXCEPT ![r.deal] = @ \cup {r.user}]
       ELSE UNCHANGED presence
    /\ Set(i, [r EXCEPT !.pc = AfterSave(ok, "expire"), !.cacheErr = ~ok])
    /\ UNCHANGED <<listTtl, socks, deals, messages, notifications, rooms, cacheMsgs, cacheRead,
                   cacheDeal, emits>>

\* redisClient.expire(`deal:${dealId}:users`, 24h), the handler's last await
JoinExpire(i) ==
    /\ reqs[i].kind = "join" /\ reqs[i].pc = "expire"
    /\ Set(i, Finish(reqs[i], "ok"))
    /\ UNCHANGED <<listTtl, socks, deals, messages, notifications, rooms, presence,
                   cacheMsgs, cacheRead, cacheDeal, emits>>

JoinCatch(i) ==
    /\ reqs[i].kind = "join" /\ reqs[i].pc = "catch"
    /\ ErrorTo(i, reqs[i], "Error joining deal room")
    /\ UNCHANGED <<listTtl, socks, deals, messages, notifications, rooms, presence,
                   cacheMsgs, cacheRead, cacheDeal>>

\* socket.leave runs synchronously when the event is handled; srem is awaited
LeaveStart(c, d) ==
    /\ rooms' = [rooms EXCEPT ![c] = @ \ {d}]
    /\ reqs' = Append(reqs, NewReq("leave", ConnUser(c), c, d, "srem"))
    /\ UNCHANGED <<listTtl, socks, deals, messages, notifications, presence, cacheMsgs, cacheRead,
                   cacheDeal, emits>>

LeaveSRem(i) ==
    LET r == reqs[i] IN
    /\ r.kind = "leave" /\ r.pc = "srem"
    /\ presence' = [presence EXCEPT ![r.deal] = @ \ {r.user}]
    /\ Set(i, Finish(r, "ok"))
    /\ UNCHANGED <<listTtl, socks, deals, messages, notifications, rooms, cacheMsgs, cacheRead,
                   cacheDeal, emits>>

(***************************************************************************)
(* socket.on("send_message")                                               *)
(***************************************************************************)
\* redisClient.ltrim(key, 0, 49) keeps the first 50 entries of the list
CacheWindow == 50

\* new Message({ deal, sender, content, read: false }); at is its createdAt,
\* a logical time
Message(i, d, u, at) ==
    [id |-> i, deal |-> d, sender |-> u, read |-> FALSE, at |-> at]

\* the time at which a handler constructs its message: one more than the
\* number of messages constructed before it
Now == 1 + Cardinality({j \in ReqIds : reqs[j].stamp > 0})

LTrim(list) == SubSeq(list, 1, IF Len(list) < CacheWindow THEN Len(list) ELSE CacheWindow)

\* mutant: messages on a completed or cancelled deal are refused as well
SendRejectsClosed(doc) == doc = NoDoc \/ doc.status \in Terminal

\* if (!deal): the only condition under which send_message refuses
SendRejects(doc) == doc = NoDoc

SendStart(c, d) ==
    /\ reqs' = Append(reqs, NewReq("send", ConnUser(c), c, d, "find"))
    /\ UNCHANGED <<listTtl, socks, deals, messages, notifications, rooms, presence,
                   cacheMsgs, cacheRead, cacheDeal, emits>>

SendFind(i) ==
    /\ reqs[i].kind = "send" /\ reqs[i].pc = "find"
    /\ Set(i, [reqs[i] EXCEPT !.doc = deals[reqs[i].deal], !.pc = "found"])
    /\ UNCHANGED <<listTtl, socks, deals, messages, notifications, rooms, presence,
                   cacheMsgs, cacheRead, cacheDeal, emits>>

SendFound(i) ==
    LET r == reqs[i] IN
    /\ r.kind = "send" /\ r.pc = "found"
    /\ IF SendRejects(r.doc)
       THEN ErrorTo(i, r, "Deal not found")
       ELSE Set(i, [r EXCEPT !.pc = "save", !.stamp = Now]) /\ UNCHANGED emits
    /\ UNCHANGED <<listTtl, socks, deals, messages, notifications, rooms, presence,
                   cacheMsgs, cacheRead, cacheDeal>>

\* newMessage.save() takes effect; the handler then awaits populate("sender")
SendSave(i, ok) ==
    LET r == reqs[i] IN
    /\ r.kind = "send" /\ r.pc = "save"
    /\ IF ok
       THEN messages' = Append(messages, Message(i, r.deal, r.user, r.stamp))
       ELSE UNCHANGED messages
    /\ Set(i, [r EXCEPT !.pc = AfterSave(ok, "populate"), !.saved = ok])
    /\ UNCHANGED <<listTtl, socks, deals, notifications, rooms, presence, cacheMsgs, cacheRead,
                   cacheDeal, emits>>

\* populate has returned: broadcast, then prepare the notification
SendPopulated(i) ==
    LET r == reqs[i]
        other == OtherParticipant(r.doc, r.user) IN
    /\ r.kind = "send" /\ r.pc = "populate"
    /\ emits' = Append(emits, Event("new_message", r.deal, DealRoom(r.deal), i))
    /\ Set(i, [r EXCEPT !.pc = IF other # NULL THEN "notify" ELSE "lpush",
                        !.rcpt = other])
    /\ UNCHANGED <<listTtl, socks, deals, messages, notifications, rooms, presence,
                   cacheMsgs, cacheRead, cacheDeal>>

SendNotifySave(i, ok) ==
    LET r == reqs[i] IN
    /\ r.kind = "send" /\ r.pc = "notify"
    /\ IF ok
       THEN notifications' =
               notifications \cup {Notification(r.rcpt, "message", r.deal, i)}
       ELSE UNCHANGED notifications
    /\ Set(i, [r EXCEPT !.pc = AfterSave(ok, "notified")])
    /\ UNCHANGED <<listTtl, socks, deals, messages, rooms, presence, cacheMsgs, cacheRead, cacheDeal,
                   emits>>

SendNotified(i) ==
    LET r == reqs[i] IN
    /\ r.kind = "send" /\ r.pc = "notified"
    /\ emits' = Append(emits,
                   Event("new_notification", r.deal, UserRoom(r.rcpt), i))
    /\ Set(i, [r EXCEPT !.pc = "lpush"])
    /\ UNCHANGED <<listTtl, socks, deals, messages, notifications, rooms, presence,
                   cacheMsgs, cacheRead, cacheDeal>>

\* redisClient.lpush(key, message); a rejected cache command throws inside
\* the handler's try block
SendLPush(i, ok) ==
    LET r == reqs[i] IN
    /\ r.kind = "send" /\ r.pc = "lpush"
    /\ IF ok
       THEN /\ cacheMsgs' = [cacheMsgs EXCEPT ![r.deal] = <<i>> \o @]
            /\ cacheRead' = [cacheRead EXCEPT ![r.deal] = <<FALSE>> \o @]
       ELSE UNCHANGED <<cacheMsgs, cacheRead>>
    /\ Set(i, [r EXCEPT !.pc = AfterSave(ok, "ltrim"), !.cacheErr = ~ok])
    /\ UNCHANGED <<listTtl, socks, deals, messages, notifications, rooms, presence,
                   cacheDeal, emits>>

SendLTrim(i) ==
    LET r == reqs[i] IN
    /\ r.kind = "send" /\ r.pc = "ltrim"
    /\ cacheMsgs' = [cacheMsgs EXCEPT ![r.deal] = LTrim(@)]
    /\ cacheRead' = [cacheRead EXCEPT ![r.deal] = LTrim(@)]
    /\ Set(i, [r EXCEPT !.pc = "expire"])
    /\ UNCHANGED <<listTtl, socks, deals, messages, notifications, rooms, presence,
                   cacheDeal, emits>>

\* redisClient.expire(key, 24h) puts a time to live on the list, if the key
\* exists; listTtl holds the deals whose list has one
Expire(d) == IF cacheMsgs[d] # <<>> THEN listTtl \cup {d} ELSE listTtl

SendExpire(i) ==
    /\ reqs[i].kind = "send" /\ reqs[i].pc = "expire"
    /\ listTtl' = Expire(reqs[i].deal)
    /\ Set(i, Finish(reqs[i], "ok"))
    /\ UNCHANGED <<socks, deals, messages, notifications, rooms, presence,
                   cacheMsgs, cacheRead, cacheDeal, emits>>

SendCatch(i) ==
    /\ reqs[i].kind = "send" /\ reqs[i].pc = "catch"
    /\ ErrorTo(i, reqs[i], "Error sending message")
    /\ UNCHANGED <<listTtl, socks, deals, messages, notifications, rooms, presence,
                   cacheMsgs, cacheRead, cacheDeal>>

(***************************************************************************)
(* socket.on("typing_start") and socket.on("typing_stop")                  *)
(***************************************************************************)
\* mutant: io.to(room) instead of socket.to(room)
TypingToRoom(c, d) == DealRoom(d)

\* socket.to(`deal:${dealId}`): the sockets in the room other than the sender
TypingTo(c, d) == DealRoom(d) \ {c}

\* both handlers have no await: each is one step
TypingStart(c, d) ==
    /\ reqs' = Append(reqs,
          Finish(NewReq("typing_start", ConnUser(c), c, d, "done"), "ok"))
    /\ emits' = Append(emits,
          Event("user_typing", d, TypingTo(c, d), Len(reqs) + 1))
    /\ UNCHANGED <<listTtl, socks, deals, messages, notifications, rooms, presence,
                   cacheMsgs, cacheRead, cacheDeal>>

TypingStop(c, d) ==
    /\ reqs' = Append(reqs,
          Finish(NewReq("typing_stop", ConnUser(c), c, d, "done"), "ok"))
    /\ emits' = Append(emits,
          Event("user_stop_typing", d, TypingTo(c, d), Len(reqs) + 1))
    /\ UNCHANGED <<listTtl, socks, deals, messages, notifications, rooms, presence,
                   cacheMsgs, cacheRead, cacheDeal>>

(***************************************************************************)
(* GET /api/deals/:id/messages, and the expiry of the cached message list  *)
(***************************************************************************)
\* mutant: the query sorts newest first
StoredListNewestFirst(d) ==
    LET sel == SelectSeq(messages, LAMBDA m : m.deal = d)
        n == Len(sel)
        rank(k) == 1 + Cardinality({j \in 1..n : sel[j].at > sel[k].at}) IN
    [p \in 1..n |-> sel[CHOOSE k \in 1..n : rank(k) = p].id]

\* Message.find({ deal }).sort({ createdAt: 1 }): the ids of the messages of
\* deal d in the durable store, oldest first; StoredMessages is their set
StoredList(d) ==
    LET sel == SelectSeq(messages, LAMBDA m : m.deal = d)
        n == Len(sel)
        rank(k) == 1 + Cardinality({j \in 1..n : sel[j].at < sel[k].at}) IN
    [p \in 1..n |-> sel[CHOOSE k \in 1..n : rank(k) = p].id]

Elements(list) == {list[k] : k \in 1..Len(list)}

StoredMessages(d) == Elements(StoredList(d))

\* the ids of the stored messages of deal d whose read flag is false
StoredUnread(d) ==
    {messages[k].id : k \in {n \in 1..Len(messages) :
                                 messages[n].deal = d /\ ~messages[n].read}}

\* prior is the set of the invocations that had finished when this one
\* arrived
GetStart(u, d) ==
    /\ reqs' = Append(reqs, [NewReq("get", u, "http", d, "find") EXCEPT
                                !.prior = {k \in ReqIds : reqs[k].pc = "done"}])
    /\ UNCHANGED <<listTtl, socks, deals, messages, notifications, rooms, presence,
                   cacheMsgs, cacheRead, cacheDeal, emits>>

GetFind(i) ==
    /\ reqs[i].kind = "get" /\ reqs[i].pc = "find"
    /\ Set(i, [reqs[i] EXCEPT !.doc = deals[reqs[i].deal], !.pc = "found"])
    /\ UNCHANGED <<listTtl, socks, deals, messages, notifications, rooms, presence,
                   cacheMsgs, cacheRead, cacheDeal, emits>>

\* the route reads its redis client from the application settings and
\* queries the store directly when there is none
GetFound(i) ==
    LET r == reqs[i] IN
    /\ r.kind = "get" /\ r.pc = "found"
    /\ Set(i,
          IF r.doc = NoDoc THEN Finish(r, "404")
          ELSE IF ~isAuthorized(r.doc, r.user) THEN Finish(r, "403")
          ELSE [r EXCEPT !.pc = IF AppHas("redisClient")
                                THEN "lrange" ELSE "query"])
    /\ UNCHANGED <<listTtl, socks, deals, messages, notifications, rooms, presence,
                   cacheMsgs, cacheRead, cacheDeal, emits>>

\* The read the route awaits.  With a redis client: lrange(key, 0, -1), and
\* a non-empty list is the response.  Otherwise, or on an empty list:
\* Message.find({ deal }), which is the response; with a redis client the
\* messages found are then appended to the cached list (rpush) and the list
\* is given its time to live.  result is the set of the message ids
\* returned, list the response itself, in its order, unread the ids returned
\* with read: false.  A cached entry carries the read flag it was written
\* with: cacheRead is aligned with cacheMsgs.
GetRead(i) ==
    LET r == reqs[i] IN
    /\ r.kind = "get" /\ r.pc \in {"lrange", "query"}
    /\ IF r.pc = "lrange"
       THEN /\ Set(i, IF cacheMsgs[r.deal] # <<>>
                      THEN [Finish(r, "200") EXCEPT
                               !.result = Elements(cacheMsgs[r.deal]),
                               !.list = cacheMsgs[r.deal],
                               !.unread = {cacheMsgs[r.deal][k] :
                                   k \in {n \in 1..Len(cacheMsgs[r.deal]) :
                                              ~cacheRead[r.deal][n]}},
                               !.from = "cache"]
                      ELSE [r EXCEPT !.pc = "query"])
            /\ UNCHANGED <<cacheMsgs, cacheRead, listTtl>>
       ELSE /\ Set(i, [Finish(r, "200") EXCEPT
                          !.result = StoredMessages(r.deal),
                          !.list = StoredList(r.deal),
                          !.unread = StoredUnread(r.deal),
                          !.from = "store"])
            /\ IF AppHas("redisClient")
               THEN /\ cacheMsgs' =
                          [cacheMsgs EXCEPT ![r.deal] = @ \o StoredList(r.deal)]
                    /\ cacheRead' =
                          [cacheRead EXCEPT ![r.deal] = @ \o
                              [k \in 1..Len(StoredList(r.deal)) |->
                                  StoredList(r.deal)[k] \notin StoredUnread(r.deal)]]
                    /\ listTtl' = IF cacheMsgs'[r.deal] # <<>>
                                  THEN listTtl \cup {r.deal} ELSE listTtl
               ELSE UNCHANGED <<cacheMsgs, cacheRead, listTtl>>
    /\ UNCHANGED <<socks, deals, messages, notifications, rooms, presence,
                   cacheDeal, emits>>

\* the 24 hour expiry send_message sets on the list runs out: redis drops
\* the key
CacheExpire(d) ==
    /\ d \in listTtl
    /\ cacheMsgs' = [cacheMsgs EXCEPT ![d] = <<>>]
    /\ cacheRead' = [cacheRead EXCEPT ![d] = <<>>]
    /\ listTtl' = listTtl \ {d}
    /\ UNCHANGED <<socks, deals, messages, notifications, rooms, presence,
                   cacheDeal, emits, reqs>>

(***************************************************************************)
(* socket.on("mark_read")                                                  *)
(***************************************************************************)
\* Message.findById of an id the store does not hold
NoMsg == [id |-> 0, deal |-> NULL, sender |-> NULL, read |-> FALSE, at |-> 0]

FindMessage(m) ==
    IF \E k \in 1..Len(messages) : messages[k].id = m
    THEN messages[CHOOSE k \in 1..Len(messages) : messages[k].id = m]
    ELSE NoMsg

\* mutant: the flag is flipped instead of set
MarkToggle(m) == [m EXCEPT !.read = ~@]

\* message.read = true
MarkRead(m) == [m EXCEPT !.read = TRUE]

MarkStart(c, m) ==
    /\ reqs' = Append(reqs,
          [NewReq("mark", ConnUser(c), c, NULL, "find") EXCEPT !.msg = m])
    /\ UNCHANGED <<listTtl, socks, deals, messages, notifications, rooms, presence,
                   cacheMsgs, cacheRead, cacheDeal, emits>>

MarkFind(i) ==
    /\ reqs[i].kind = "mark" /\ reqs[i].pc = "find"
    /\ Set(i, [reqs[i] EXCEPT !.mdoc = FindMessage(reqs[i].msg), !.pc = "found"])
    /\ UNCHANGED <<listTtl, socks, deals, messages, notifications, rooms, presence,
                   cacheMsgs, cacheRead, cacheDeal, emits>>

\* if (!message) return: no event at all for an absent message
MarkFound(i) ==
    LET r == reqs[i] IN
    /\ r.kind = "mark" /\ r.pc = "found"
    /\ Set(i, IF r.mdoc = NoMsg
              THEN Finish(r, "ignored")
              ELSE [r EXCEPT !.pc = "save", !.deal = r.mdoc.deal])
    /\ UNCHANGED <<listTtl, socks, deals, messages, notifications, rooms, presence,
                   cacheMsgs, cacheRead, cacheDeal, emits>>

\* message.save() sends an update only when the assignment changed the
\* loaded document, and then sets the one path read
MarkSave(i, ok) ==
    LET r == reqs[i]
        modified == MarkRead(r.mdoc) # r.mdoc
        done == ~modified \/ ok IN
    /\ r.kind = "mark" /\ r.pc = "save"
    /\ IF modified /\ ok
       THEN messages' =
               [k \in 1..Len(messages) |->
                   IF messages[k].id = r.msg
                   THEN [messages[k] EXCEPT !.read = MarkRead(r.mdoc).read]
                   ELSE messages[k]]
       ELSE UNCHANGED messages
    /\ Set(i, [r EXCEPT !.pc = AfterSave(done, "saved"), !.saved = done])
    /\ UNCHANGED <<listTtl, socks, deals, notifications, rooms, presence, cacheMsgs, cacheRead,
                   cacheDeal, emits>>

MarkSaved(i) ==
    LET r == reqs[i] IN
    /\ r.kind = "mark" /\ r.pc = "saved"
    /\ emits' = Append(emits,
                   Event("message_read", r.deal, DealRoom(r.deal), i))
    /\ Set(i, Finish(r, "ok"))
    /\ UNCHANGED <<listTtl, socks, deals, messages, notifications, rooms, presence,
                   cacheMsgs, cacheRead, cacheDeal>>

\* catch (error) { console.error(...) }: nothing is sent to the caller
MarkCatch(i) ==
    /\ reqs[i].kind = "mark" /\ reqs[i].pc = "catch"
    /\ Set(i, Finish(reqs[i], "logged"))
    /\ UNCHANGED <<listTtl, socks, deals, messages, notifications, rooms, presence,
                   cacheMsgs, cacheRead, cacheDeal, emits>>

(***************************************************************************)
(* socket.on("update_price")                                               *)
(***************************************************************************)
\* the handler's own copy of the deal after deal.price = price and
\* deal.priceHistory.unshift({...})
PriceLocal(r, i) ==
    [r.doc EXCEPT !.price = r.price,
                  !.priceHistory = <<PriceEntry(r.price, r.user, i)>> \o @]

\* mutant: the save does not look at the version
VersionUnchecked(db, doc) == TRUE

\* Saving a document whose array was replaced (unshift marks the whole
\* array modified) sends the update with the loaded __v in its filter and
\* increments __v: it matches only when no other such save came in between.
VersionMatches(db, doc) == db.v = doc.v


\* mutant: the entry is inserted and the current price is left as it was
PriceWriteEntryOnly(db, r, i) ==
    [db EXCEPT !.priceHistory = PriceLocal(r, i).priceHistory, !.v = @ + 1]

\* the update deal.save() sends: $set of the modified paths, $inc of __v
PriceWrite(db, r, i) ==
    [db EXCEPT !.price = IF r.price # r.doc.price THEN r.price ELSE @,
               !.priceHistory = PriceLocal(r, i).priceHistory,
               !.v = @ + 1]

\* the denormalized deal written to the cache key deal:<id>
NoSnap == [status |-> "none", price |-> 0, buyer |-> NULL, seller |-> NULL]

Snapshot(doc) ==
    [status |-> doc.status, price |-> doc.price, buyer |-> doc.buyer,
     seller |-> doc.seller]

PriceStart(c, d, p) ==
    /\ reqs' = Append(reqs,
          [NewReq("price", ConnUser(c), c, d, "find") EXCEPT !.price = p])
    /\ UNCHANGED <<listTtl, socks, deals, messages, notifications, rooms, presence,
                   cacheMsgs, cacheRead, cacheDeal, emits>>

PriceFind(i) ==
    /\ reqs[i].kind = "price" /\ reqs[i].pc = "find"
    /\ Set(i, [reqs[i] EXCEPT !.doc = deals[reqs[i].deal], !.pc = "found"])
    /\ UNCHANGED <<listTtl, socks, deals, messages, notifications, rooms, presence,
                   cacheMsgs, cacheRead, cacheDeal, emits>>

PriceFound(i) ==
    LET r == reqs[i] IN
    /\ r.kind = "price" /\ r.pc = "found"
    /\ IF r.doc = NoDoc
       THEN ErrorTo(i, r, "Deal not found")
       ELSE Set(i, [r EXCEPT !.pc = "save"]) /\ UNCHANGED emits
    /\ UNCHANGED <<listTtl, socks, deals, messages, notifications, rooms, presence,
                   cacheMsgs, cacheRead, cacheDeal>>

PriceSave(i, ok) ==
    LET r == reqs[i]
        done == ok /\ Exists(r.deal) /\ VersionMatches(deals[r.deal], r.doc) IN
    /\ r.kind = "price" /\ r.pc = "save"
    /\ IF done
       THEN deals' = [deals EXCEPT ![r.deal] = PriceWrite(@, r, i)]
       ELSE UNCHANGED deals
    /\ Set(i, [r EXCEPT !.pc = AfterSave(done, "saved"), !.saved = done])
    /\ UNCHANGED <<listTtl, socks, messages, notifications, rooms, presence, cacheMsgs, cacheRead,
                   cacheDeal, emits>>

PriceSaved(i) ==
    LET r == reqs[i]
        other == OtherParticipant(r.doc, r.user) IN
    /\ r.kind = "price" /\ r.pc = "saved"
    /\ emits' = Append(emits,
                   Event("price_updated", r.deal, DealRoom(r.deal), i))
    /\ Set(i, [r EXCEPT !.pc = IF other # NULL THEN "notify" ELSE "cache",
                        !.rcpt = other])
    /\ UNCHANGED <<listTtl, socks, deals, messages, notifications, rooms, presence,
                   cacheMsgs, cacheRead, cacheDeal>>

PriceNotifySave(i, ok) ==
    LET r == reqs[i] IN
    /\ r.kind = "price" /\ r.pc = "notify"
    /\ IF ok
       THEN notifications' =
               notifications \cup {Notification(r.rcpt, "price", r.deal, i)}
       ELSE UNCHANGED notifications
    /\ Set(i, [r EXCEPT !.pc = AfterSave(ok, "notified")])
    /\ UNCHANGED <<listTtl, socks, deals, messages, rooms, presence, cacheMsgs, cacheRead, cacheDeal,
                   emits>>

PriceNotified(i) ==
    LET r == reqs[i] IN
    /\ r.kind = "price" /\ r.pc = "notified"
    /\ emits' = Append(emits,
                   Event("new_notification", r.deal, UserRoom(r.rcpt), i))
    /\ Set(i, [r EXCEPT !.pc = "cache"])
    /\ UNCHANGED <<listTtl, socks, deals, messages, notifications, rooms, presence,
                   cacheMsgs, cacheRead, cacheDeal>>

\* redisClient.set(`deal:${dealId}`, JSON.stringify(dealData))
PriceCacheSet(i) ==
    LET r == reqs[i] IN
    /\ r.kind = "price" /\ r.pc = "cache"
    /\ cacheDeal' = [cacheDeal EXCEPT ![r.deal] = Snapshot(PriceLocal(r, i))]
    /\ Set(i, [r EXCEPT !.pc = "expire"])
    /\ UNCHANGED <<listTtl, socks, deals, messages, notifications, rooms, presence,
                   cacheMsgs, cacheRead, emits>>

PriceExpire(i) ==
    /\ reqs[i].kind = "price" /\ reqs[i].pc = "expire"
    /\ Set(i, Finish(reqs[i], "ok"))
    /\ UNCHANGED <<listTtl, socks, deals, messages, notifications, rooms, presence,
                   cacheMsgs, cacheRead, cacheDeal, emits>>

PriceCatch(i) ==
    /\ reqs[i].kind = "price" /\ reqs[i].pc = "catch"
    /\ ErrorTo(i, reqs[i], "Error updating price")
    /\ UNCHANGED <<listTtl, socks, deals, messages, notifications, rooms, presence,
                   cacheMsgs, cacheRead, cacheDeal>>

(***************************************************************************)
(* POST /api/deals/from-listing and POST /api/deals                        *)
(***************************************************************************)
\* the one listing of the model: active, offered by s2
ListingSeller == "s2"

\* authorize(...roles) with one role
authorize(role, u) == Role(u) = role

\* a fresh ObjectId for the new deal
FreshDeal == CHOOSE d \in DealIds : ~Exists(d)

FromListingStart(u, p) ==
    /\ reqs' = Append(reqs,
          IF authorize("buyer", u)
          THEN [NewReq("fromListing", u, "http", NULL, "save") EXCEPT !.price = p]
          ELSE [NewReq("fromListing", u, "http", NULL, "done") EXCEPT
                    !.price = p, !.out = "403"])
    /\ UNCHANGED <<listTtl, socks, deals, messages, notifications, rooms, presence,
                   cacheMsgs, cacheRead, cacheDeal, emits>>

FromListingSave(i, ok) ==
    LET r == reqs[i]
        doc == NewDeal(r.user, ListingSeller, r.price, "buyer", i)
        done == ok /\ DealValidates(doc) /\ \E d \in DealIds : ~Exists(d) IN
    /\ r.kind = "fromListing" /\ r.pc = "save"
    /\ IF done
       THEN /\ deals' = [deals EXCEPT ![FreshDeal] = doc]
            /\ Set(i, [r EXCEPT !.pc = "notify", !.deal = FreshDeal,
                                !.doc = doc, !.saved = TRUE,
                                !.rcpt = ListingSeller])
       ELSE /\ Set(i, [r EXCEPT !.pc = "catch"])
            /\ UNCHANGED deals
    /\ UNCHANGED <<listTtl, socks, messages, notifications, rooms, presence, cacheMsgs, cacheRead,
                   cacheDeal, emits>>

FromListingNotifySave(i, ok) ==
    LET r == reqs[i] IN
    /\ r.kind = "fromListing" /\ r.pc = "notify"
    /\ IF ok
       THEN notifications' =
               notifications \cup {Notification(r.rcpt, "deal", r.deal, i)}
       ELSE UNCHANGED notifications
    /\ Set(i, [r EXCEPT !.pc = AfterSave(ok, "notified")])
    /\ UNCHANGED <<listTtl, socks, deals, messages, rooms, presence, cacheMsgs, cacheRead, cacheDeal,
                   emits>>

\* req.app.get("io").to(`user:${listing.seller}`).emit(...), res.status(201)
FromListingNotified(i) ==
    LET r == reqs[i] IN
    /\ r.kind = "fromListing" /\ r.pc = "notified"
    /\ IF AppHas("io")
       THEN /\ emits' = Append(emits,
                   Event("new_notification", r.deal, UserRoom(r.rcpt), i))
            /\ Set(i, Finish(r, "201"))
       ELSE /\ Set(i, Finish(r, "500"))
            /\ UNCHANGED emits
    /\ UNCHANGED <<listTtl, socks, deals, messages, notifications, rooms, presence,
                   cacheMsgs, cacheRead, cacheDeal>>

FromListingCatch(i) ==
    /\ reqs[i].kind = "fromListing" /\ reqs[i].pc = "catch"
    /\ Set(i, Finish(reqs[i], "500"))
    /\ UNCHANGED <<listTtl, socks, deals, messages, notifications, rooms, presence,
                   cacheMsgs, cacheRead, cacheDeal, emits>>

\* POST /api/deals builds the deal without initiatedBy and saves it
CreateStart(u, p) ==
    /\ reqs' = Append(reqs,
          [NewReq("create", u, "http", NULL, "save") EXCEPT !.price = p])
    /\ UNCHANGED <<listTtl, socks, deals, messages, notifications, rooms, presence,
                   cacheMsgs, cacheRead, cacheDeal, emits>>

\* mongoose.model("User").find({ role: "seller" }), in the order the loop
\* visits the sellers
Sellers == <<"s1", "s2">>

\* storeErr records that the store itself refused the save (it was down, or
\* the model has no deal id left), as opposed to the schema's validation
CreateSave(i, ok) ==
    LET r == reqs[i]
        doc == NewDeal(r.user, NULL, r.price, NULL, i)
        up == ok /\ \E d \in DealIds : ~Exists(d)
        done == up /\ DealValidates(doc) IN
    /\ r.kind = "create" /\ r.pc = "save"
    /\ IF done
       THEN /\ deals' = [deals EXCEPT ![FreshDeal] = doc]
            /\ Set(i, [r EXCEPT !.pc = IF Role(r.user) = "buyer"
                                      THEN "notifyAll" ELSE "respond",
                                !.deal = FreshDeal, !.doc = doc,
                                !.saved = TRUE, !.rcpt = Head(Sellers)])
       ELSE /\ Set(i, [r EXCEPT !.pc = "catch", !.storeErr = ~up])
            /\ UNCHANGED deals
    /\ UNCHANGED <<listTtl, socks, messages, notifications, rooms, presence, cacheMsgs, cacheRead,
                   cacheDeal, emits>>

\* The body of the loop over the sellers, for the seller r.rcpt: the
\* notification is saved and then emitted through req.app.get("io"); a
\* rejected save or the missing "io" leaves the loop for the route's catch.
\* No state reaches this step: CreateSave never validates the deal.
CreateNotifySave(i, ok) ==
    LET r == reqs[i]
        at == CHOOSE k \in 1..Len(Sellers) : Sellers[k] = r.rcpt
        rest == SubSeq(Sellers, at + 1, Len(Sellers)) IN
    /\ r.kind = "create" /\ r.pc = "notifyAll"
    /\ IF ok
       THEN notifications' =
               notifications \cup {Notification(r.rcpt, "deal", r.deal, i)}
       ELSE UNCHANGED notifications
    /\ IF ok /\ AppHas("io")
       THEN /\ emits' = Append(emits,
                   Event("new_notification", r.deal, UserRoom(r.rcpt), i))
            /\ Set(i, IF rest = <<>> THEN [r EXCEPT !.pc = "respond"]
                                     ELSE [r EXCEPT !.rcpt = Head(rest)])
       ELSE /\ Set(i, [r EXCEPT !.pc = "catch",
                                !.failed = IF ok THEN @ ELSE @ \cup {r.rcpt}])
            /\ UNCHANGED emits
    /\ UNCHANGED <<listTtl, socks, deals, messages, rooms, presence, cacheMsgs, cacheRead, cacheDeal>>

\* res.status(201).json(deal); like the loop, never reached
CreateRespond(i) ==
    /\ reqs[i].kind = "create" /\ reqs[i].pc = "respond"
    /\ Set(i, Finish(reqs[i], "201"))
    /\ UNCHANGED <<listTtl, socks, deals, messages, notifications, rooms, presence,
                   cacheMsgs, cacheRead, cacheDeal, emits>>

CreateCatch(i) ==
    /\ reqs[i].kind = "create" /\ reqs[i].pc = "catch"
    /\ Set(i, Finish(reqs[i], "500"))
    /\ UNCHANGED <<listTtl, socks, deals, messages, notifications, rooms, presence,
                   cacheMsgs, cacheRead, cacheDeal, emits>>

(***************************************************************************)
(* PUT /api/notifications/:id/read, PUT /api/notifications/read-all and    *)
(* DELETE /api/notifications/:id.  A notification is identified by the     *)
(* request that created it.                                                *)
(***************************************************************************)
\* Notification.findById of an id the store does not hold
NoNote ==
    [user |-> NULL, type |-> "", deal |-> NULL, req |-> 0, read |-> FALSE]

FindNote(n) ==
    IF \E x \in notifications : x.req = n
    THEN CHOOSE x \in notifications : x.req = n
    ELSE NoNote

\* notification.user.toString() === req.user.id
Owns(doc, u) == doc.user = u

\* kind is "noteRead" (PUT /:id/read) or "noteDelete" (DELETE /:id)
NoteStart(kind, u, n) ==
    /\ reqs' = Append(reqs, [NewReq(kind, u, "http", NULL, "find") EXCEPT !.nid = n])
    /\ UNCHANGED <<listTtl, socks, deals, messages, notifications, rooms, presence,
                   cacheMsgs, cacheRead, cacheDeal, emits>>

NoteFind(i) ==
    /\ reqs[i].kind \in {"noteRead", "noteDelete"} /\ reqs[i].pc = "find"
    /\ Set(i, [reqs[i] EXCEPT !.ndoc = FindNote(reqs[i].nid), !.pc = "found"])
    /\ UNCHANGED <<listTtl, socks, deals, messages, notifications, rooms, presence,
                   cacheMsgs, cacheRead, cacheDeal, emits>>

NoteFound(i) ==
    LET r == reqs[i] IN
    /\ r.kind \in {"noteRead", "noteDelete"} /\ r.pc = "found"
    /\ Set(i,
          IF r.ndoc = NoNote THEN Finish(r, "404")
          ELSE IF ~Owns(r.ndoc, r.user) THEN Finish(r, "403")
          ELSE [r EXCEPT !.pc = IF r.kind = "noteRead" THEN "save" ELSE "delete",
                         !.deal = r.ndoc.deal])
    /\ UNCHANGED <<listTtl, socks, deals, messages, notifications, rooms, presence,
                   cacheMsgs, cacheRead, cacheDeal, emits>>

\* notification.read = true; notification.save(): an update is sent only
\* when the flag changed, and it fails when the document is gone
NoteSave(i, ok) ==
    LET r == reqs[i]
        modified == ~r.ndoc.read
        there == \E x \in notifications : x.req = r.nid
        done == ~modified \/ (ok /\ there) IN
    /\ r.kind = "noteRead" /\ r.pc = "save"
    /\ IF modified /\ ok /\ there
       THEN notifications' =
               {IF x.req = r.nid THEN [x EXCEPT !.read = TRUE] ELSE x :
                   x \in notifications}
       ELSE UNCHANGED notifications
    /\ Set(i, [r EXCEPT !.pc = AfterSave(done, "saved"), !.saved = done])
    /\ UNCHANGED <<listTtl, socks, deals, messages, rooms, presence, cacheMsgs, cacheRead,
                   cacheDeal, emits>>

\* Notification.findByIdAndDelete(req.params.id)
NoteDelete(i, ok) ==
    LET r == reqs[i] IN
    /\ r.kind = "noteDelete" /\ r.pc = "delete"
    /\ IF ok
       THEN notifications' = {x \in notifications : x.req # r.nid}
       ELSE UNCHANGED notifications
    /\ Set(i, [r EXCEPT !.pc = AfterSave(ok, "saved"), !.saved = ok])
    /\ UNCHANGED <<listTtl, socks, deals, messages, rooms, presence, cacheMsgs, cacheRead,
                   cacheDeal, emits>>

NoteSaved(i) ==
    /\ reqs[i].kind \in {"noteRead", "noteDelete", "readAll"}
    /\ reqs[i].pc = "saved"
    /\ Set(i, Finish(reqs[i], "200"))
    /\ UNCHANGED <<listTtl, socks, deals, messages, notifications, rooms, presence,
                   cacheMsgs, cacheRead, cacheDeal, emits>>

NoteCatch(i) ==
    /\ reqs[i].kind \in {"noteRead", "noteDelete", "readAll"}
    /\ reqs[i].pc = "catch"
    /\ Set(i, Finish(reqs[i], "500"))
    /\ UNCHANGED <<listTtl, socks, deals, messages, notifications, rooms, presence,
                   cacheMsgs, cacheRead, cacheDeal, emits>>

ReadAllStart(u) ==
    /\ reqs' = Append(reqs, NewReq("readAll", u, "http", NULL, "update"))
    /\ UNCHANGED <<listTtl, socks, deals, messages, notifications, rooms, presence,
                   cacheMsgs, cacheRead, cacheDeal, emits>>

\* Notification.updateMany({ user, read: false }, { $set: { read: true } })
ReadAllUpdate(i, ok) ==
    LET r == reqs[i] IN
    /\ r.kind = "readAll" /\ r.pc = "update"
    /\ IF ok
       THEN notifications' =
               {IF x.user = r.user THEN [x EXCEPT !.read = TRUE] ELSE x :
                   x \in notifications}
       ELSE UNCHANGED notifications
    /\ Set(i, [r EXCEPT !.pc = AfterSave(ok, "saved"), !.saved = ok])
    /\ UNCHANGED <<listTtl, socks, deals, messages, rooms, presence, cacheMsgs, cacheRead,
                   cacheDeal, emits>>

(***************************************************************************)
(* DELETE /api/admin/deals/:id                                             *)
(***************************************************************************)
DropStart(u, d) ==
    /\ reqs' = Append(reqs,
          IF authorize("admin", u)
          THEN NewReq("drop", u, "http", d, "find")
          ELSE Finish(NewReq("drop", u, "http", d, "done"), "403"))
    /\ UNCHANGED <<listTtl, socks, deals, messages, notifications, rooms, presence,
                   cacheMsgs, cacheRead, cacheDeal, emits>>

DropFind(i) ==
    /\ reqs[i].kind = "drop" /\ reqs[i].pc = "find"
    /\ Set(i, [reqs[i] EXCEPT !.doc = deals[reqs[i].deal], !.pc = "found"])
    /\ UNCHANGED <<listTtl, socks, deals, messages, notifications, rooms, presence,
                   cacheMsgs, cacheRead, cacheDeal, emits>>

DropFound(i) ==
    LET r == reqs[i] IN
    /\ r.kind = "drop" /\ r.pc = "found"
    /\ Set(i, IF r.doc = NoDoc THEN Finish(r, "404")
              ELSE [r EXCEPT !.pc = "messages"])
    /\ UNCHANGED <<listTtl, socks, deals, messages, notifications, rooms, presence,
                   cacheMsgs, cacheRead, cacheDeal, emits>>

\* Message.deleteMany({ deal: deal._id })
DropMessages(i, ok) ==
    LET r == reqs[i] IN
    /\ r.kind = "drop" /\ r.pc = "messages"
    /\ IF ok
       THEN messages' = SelectSeq(messages, LAMBDA m : m.deal # r.deal)
       ELSE UNCHANGED messages
    /\ Set(i, [r EXCEPT !.pc = AfterSave(ok, "documents")])
    /\ UNCHANGED <<listTtl, socks, deals, notifications, rooms, presence, cacheMsgs, cacheRead,
                   cacheDeal, emits>>

\* Document.find({ deal }) and the loop over the deal's documents, of which
\* the model has none
DropDocuments(i) ==
    /\ reqs[i].kind = "drop" /\ reqs[i].pc = "documents"
    /\ Set(i, [reqs[i] EXCEPT !.pc = "notifications"])
    /\ UNCHANGED <<listTtl, socks, deals, messages, notifications, rooms, presence,
                   cacheMsgs, cacheRead, cacheDeal, emits>>

\* Notification.deleteMany({ dealId: deal._id })
DropNotifications(i, ok) ==
    LET r == reqs[i] IN
    /\ r.kind = "drop" /\ r.pc = "notifications"
    /\ IF ok
       THEN notifications' = {x \in notifications : x.deal # r.deal}
       ELSE UNCHANGED notifications
    /\ Set(i, [r EXCEPT !.pc = AfterSave(ok, "deal")])
    /\ UNCHANGED <<listTtl, socks, deals, messages, rooms, presence, cacheMsgs, cacheRead,
                   cacheDeal, emits>>

\* Deal.findByIdAndDelete(req.params.id), then res.json
DropDeal(i, ok) ==
    LET r == reqs[i] IN
    /\ r.kind = "drop" /\ r.pc = "deal"
    /\ IF ok
       THEN deals' = [deals EXCEPT ![r.deal] = NoDoc]
       ELSE UNCHANGED deals
    /\ Set(i, IF ok THEN [Finish(r, "200") EXCEPT !.saved = TRUE]
              ELSE [r EXCEPT !.pc = "catch"])
    /\ UNCHANGED <<listTtl, socks, messages, notifications, rooms, presence,
                   cacheMsgs, cacheRead, cacheDeal, emits>>

DropCatch(i) ==
    /\ reqs[i].kind = "drop" /\ reqs[i].pc = "catch"
    /\ Set(i, Finish(reqs[i], "500"))
    /\ UNCHANGED <<listTtl, socks, deals, messages, notifications, rooms, presence,
                   cacheMsgs, cacheRead, cacheDeal, emits>>

(***************************************************************************)
(* The initial state: the store holds one deal d1, pending, created by the *)
(* buyer b1, with a seller or (as GET /api/deals/available lists them)     *)
(* without one; the four connections are established and no connection has *)
(* joined a deal room; the cache is empty.                                 *)
(***************************************************************************)
Init ==
    /\ \E s \in {NULL, "s1"} :
          deals = [d \in DealIds |->
                      IF d = "d1" THEN NewDeal("b1", s, 100, "buyer", 0) ELSE NoDoc]
    /\ messages = <<>>
    /\ notifications = {}
    /\ rooms = [c \in Conns |-> {}]
    /\ presence = [d \in DealIds |-> {}]
    /\ cacheMsgs = [d \in DealIds |-> <<>>]
    /\ cacheRead = [d \in DealIds |-> <<>>]
    /\ cacheDeal = [d \in DealIds |-> NoSnap]
    /\ emits = <<>>
    /\ reqs = <<>>
    /\ socks = [c \in Conns |-> OpenSock(ConnUser(c))]
    /\ listTtl = {}

\* the same store before any client has connected
InitConn ==
    /\ \E s \in {NULL, "s1"} :
          deals = [d \in DealIds |->
                      IF d = "d1" THEN NewDeal("b1", s, 100, "buyer", 0) ELSE NoDoc]
    /\ messages = <<>>
    /\ notifications = {}
    /\ rooms = [c \in Conns |-> {}]
    /\ presence = [d \in DealIds |-> {}]
    /\ cacheMsgs = [d \in DealIds |-> <<>>]
    /\ cacheRead = [d \in DealIds |-> <<>>]
    /\ cacheDeal = [d \in DealIds |-> NoSnap]
    /\ emits = <<>>
    /\ reqs = <<>>
    /\ socks = [c \in Conns |-> NoSock]
    /\ listTtl = {}

(***************************************************************************)
(* Specifications.                                                         *)
(***************************************************************************)
StatusInputs == Statuses \cup {BadStatus}

\* deal creation and status requests over HTTP
NextStatus ==
    \/ Room(MaxReqs) /\ \E u \in Users, d \in DealIds, s \in StatusInputs : StatusStart(u, d, s)
    \/ \E i \in ReqIds : StatusFind(i)
    \/ \E i \in ReqIds : StatusCheck(i)
    \/ \E i \in ReqIds, ok \in BOOLEAN : StatusSave(i, ok)
    \/ \E i \in ReqIds : StatusSaved(i)
    \/ \E i \in ReqIds, ok \in BOOLEAN : StatusNotifySave(i, ok)
    \/ \E i \in ReqIds : StatusNotified(i)
    \/ \E i \in ReqIds : StatusCatch(i)
    \/ Room(MaxReqs) /\ \E u \in Users, p \in Prices : FromListingStart(u, p)
    \/ \E i \in ReqIds, ok \in BOOLEAN : FromListingSave(i, ok)
    \/ \E i \in ReqIds, ok \in BOOLEAN : FromListingNotifySave(i, ok)
    \/ \E i \in ReqIds : FromListingNotified(i)
    \/ \E i \in ReqIds : FromListingCatch(i)
    \/ Room(MaxReqs) /\ \E u \in Users, p \in Prices : CreateStart(u, p)
    \/ \E i \in ReqIds, ok \in BOOLEAN : CreateSave(i, ok)
    \/ \E i \in ReqIds : CreateCatch(i)

SpecStatus == Init /\ [][NextStatus]_vars

\* messaging over sockets, with connections joining and leaving deal rooms
NextMsg ==
    \/ Room(MaxReqs) /\ \E c \in Conns, d \in DealIds : SendStart(c, d)
    \/ \E i \in ReqIds : SendFind(i)
    \/ \E i \in ReqIds : SendFound(i)
    \/ \E i \in ReqIds, ok \in BOOLEAN : SendSave(i, ok)
    \/ \E i \in ReqIds : SendPopulated(i)
    \/ \E i \in ReqIds, ok \in BOOLEAN : SendNotifySave(i, ok)
    \/ \E i \in ReqIds : SendNotified(i)
    \/ \E i \in ReqIds, ok \in BOOLEAN : SendLPush(i, ok)
    \/ \E i \in ReqIds : SendLTrim(i)
    \/ \E i \in ReqIds : SendExpire(i)
    \/ \E i \in ReqIds : SendCatch(i)
    \/ Room(MaxReqs) /\ \E c \in Conns, d \in DealIds : JoinStart(c, d)
    \/ \E i \in ReqIds : JoinFind(i)
    \/ \E i \in ReqIds : JoinFound(i)
    \/ \E i \in ReqIds, ok \in BOOLEAN : JoinSAdd(i, ok)
    \/ \E i \in ReqIds : JoinExpire(i)
    \/ \E i \in ReqIds : JoinCatch(i)
    \/ Room(MaxReqs) /\ \E c \in Conns, d \in DealIds : LeaveStart(c, d)
    \/ \E i \in ReqIds : LeaveSRem(i)

SpecMsg == Init /\ [][NextMsg]_vars

\* the buyer joins the room of d1, once, while the buyer and the seller s1
\* send messages to it; no store operation fails
NextOrder ==
    \/ Room(MaxOrderReqs) /\ Fewer("join", 1) /\ JoinStart("c_b1", "d1")
    \/ \E i \in ReqIds : JoinFind(i)
    \/ \E i \in ReqIds : JoinFound(i)
    \/ \E i \in ReqIds : JoinSAdd(i, TRUE)
    \/ \E i \in ReqIds : JoinExpire(i)
    \/ Room(MaxOrderReqs) /\ Fewer("send", MaxReqs) /\ \E c \in {"c_b1", "c_s1"} : SendStart(c, "d1")
    \/ \E i \in ReqIds : SendFind(i)
    \/ \E i \in ReqIds : SendFound(i)
    \/ \E i \in ReqIds : SendSave(i, TRUE)
    \/ \E i \in ReqIds : SendPopulated(i)
    \/ \E i \in ReqIds : SendNotifySave(i, TRUE)
    \/ \E i \in ReqIds : SendNotified(i)
    \/ \E i \in ReqIds : SendLPush(i, TRUE)
    \/ \E i \in ReqIds : SendLTrim(i)
    \/ \E i \in ReqIds : SendExpire(i)

SpecOrder == Init /\ [][NextOrder]_vars

\* the buyer sends messages to d1, up to two at a time, and the cached list
\* expires; whenever nothing is in flight the buyer or an
\* outsider reads the history; no store operation fails
NextRead ==
    \/ Room(MaxOrderReqs) /\ Fewer("send", MaxReqs) /\ Concurrent("send", 2) /\ NoneInFlight("get") /\ SendStart("c_b1", "d1")
    \/ \E i \in ReqIds : SendFind(i)
    \/ \E i \in ReqIds : SendFound(i)
    \/ \E i \in ReqIds : SendSave(i, TRUE)
    \/ \E i \in ReqIds : SendPopulated(i)
    \/ \E i \in ReqIds : SendNotifySave(i, TRUE)
    \/ \E i \in ReqIds : SendNotified(i)
    \/ \E i \in ReqIds : SendLPush(i, TRUE)
    \/ \E i \in ReqIds : SendLTrim(i)
    \/ \E i \in ReqIds : SendExpire(i)
    \/ Room(MaxOrderReqs) /\ Idle /\ \E u \in {"b1", "s2"} : GetStart(u, "d1")
    \/ \E i \in ReqIds : GetFind(i)
    \/ \E i \in ReqIds : GetFound(i)
    \/ \E i \in ReqIds : GetRead(i)
    \/ \E d \in DealIds : CacheExpire(d)

SpecRead == Init /\ [][NextRead]_vars

\* the buyer sends messages to d1, one after the other, while the buyer and
\* the seller s1 mark messages as read, concurrently with everything
NextMark ==
    \/ Room(MaxOrderReqs) /\ NoneInFlight("send") /\ SendStart("c_b1", "d1")
    \/ \E i \in ReqIds : SendFind(i)
    \/ \E i \in ReqIds : SendFound(i)
    \/ \E i \in ReqIds : SendSave(i, TRUE)
    \/ \E i \in ReqIds : SendPopulated(i)
    \/ \E i \in ReqIds : SendNotifySave(i, TRUE)
    \/ \E i \in ReqIds : SendNotified(i)
    \/ \E i \in ReqIds : SendLPush(i, TRUE)
    \/ \E i \in ReqIds : SendLTrim(i)
    \/ \E i \in ReqIds : SendExpire(i)
    \/ Room(MaxOrderReqs) /\ \E c \in {"c_b1", "c_s1"}, m \in {1, 2} : MarkStart(c, m)
    \/ \E i \in ReqIds : MarkFind(i)
    \/ \E i \in ReqIds : MarkFound(i)
    \/ \E i \in ReqIds, ok \in BOOLEAN : MarkSave(i, ok)
    \/ \E i \in ReqIds : MarkSaved(i)
    \/ \E i \in ReqIds : MarkCatch(i)

SpecMark == Init /\ [][NextMark]_vars

\* edits of the title or of the description of d1 by every user, while its
\* buyer completes or cancels the deal
EditInputs == {<<"t1", "">>, <<"", "x1">>}

NextEdit ==
    \/ Room(MaxReqs) /\ \E u \in Users, e \in EditInputs : EditStart(u, "d1", e[1], e[2])
    \/ \E i \in ReqIds : EditFind(i)
    \/ \E i \in ReqIds : EditFound(i)
    \/ \E i \in ReqIds, ok \in BOOLEAN : EditSave(i, ok)
    \/ \E i \in ReqIds : EditSaved(i)
    \/ \E i \in ReqIds : EditCatch(i)
    \/ Room(MaxReqs) /\ \E s \in Terminal : StatusStart("b1", "d1", s)
    \/ \E i \in ReqIds : StatusFind(i)
    \/ \E i \in ReqIds : StatusCheck(i)
    \/ \E i \in ReqIds : StatusSave(i, TRUE)
    \/ \E i \in ReqIds : StatusSaved(i)
    \/ \E i \in ReqIds : StatusNotifySave(i, TRUE)
    \/ \E i \in ReqIds : StatusNotified(i)

SpecEdit == Init /\ [][NextEdit]_vars

\* status requests of every user on d1: accepting it, or completing it
NextGate ==
    \/ Room(MaxReqs) /\ \E u \in Users, s \in {"in-progress", "completed"} : StatusStart(u, "d1", s)
    \/ \E i \in ReqIds : StatusFind(i)
    \/ \E i \in ReqIds : StatusCheck(i)
    \/ \E i \in ReqIds, ok \in BOOLEAN : StatusSave(i, ok)
    \/ \E i \in ReqIds : StatusSaved(i)
    \/ \E i \in ReqIds : StatusNotifySave(i, TRUE)
    \/ \E i \in ReqIds : StatusNotified(i)
    \/ \E i \in ReqIds : StatusCatch(i)

SpecGate == Init /\ [][NextGate]_vars

\* joining and leaving deal rooms while deals are created from the listing
NextJoin ==
    \/ Room(MaxReqs) /\ \E c \in Conns, d \in DealIds : JoinStart(c, d)
    \/ \E i \in ReqIds : JoinFind(i)
    \/ \E i \in ReqIds : JoinFound(i)
    \/ \E i \in ReqIds, ok \in BOOLEAN : JoinSAdd(i, ok)
    \/ \E i \in ReqIds : JoinExpire(i)
    \/ \E i \in ReqIds : JoinCatch(i)
    \/ Room(MaxReqs) /\ \E c \in Conns, d \in DealIds : LeaveStart(c, d)
    \/ \E i \in ReqIds : LeaveSRem(i)
    \/ Room(MaxReqs) /\ \E u \in Users, p \in Prices : FromListingStart(u, p)
    \/ \E i \in ReqIds, ok \in BOOLEAN : FromListingSave(i, ok)
    \/ \E i \in ReqIds, ok \in BOOLEAN : FromListingNotifySave(i, ok)
    \/ \E i \in ReqIds : FromListingNotified(i)
    \/ \E i \in ReqIds : FromListingCatch(i)

SpecJoin == Init /\ [][NextJoin]_vars

\* price updates over sockets, with status requests over HTTP
NextPrice ==
    \/ Room(MaxReqs) /\ \E c \in Conns, d \in DealIds, p \in Prices : PriceStart(c, d, p)
    \/ \E i \in ReqIds : PriceFind(i)
    \/ \E i \in ReqIds : PriceFound(i)
    \/ \E i \in ReqIds, ok \in BOOLEAN : PriceSave(i, ok)
    \/ \E i \in ReqIds : PriceSaved(i)
    \/ \E i \in ReqIds, ok \in BOOLEAN : PriceNotifySave(i, ok)
    \/ \E i \in ReqIds : PriceNotified(i)
    \/ \E i \in ReqIds : PriceCacheSet(i)
    \/ \E i \in ReqIds : PriceExpire(i)
    \/ \E i \in ReqIds : PriceCatch(i)
    \/ Room(MaxReqs) /\ \E u \in Users, d \in DealIds, s \in StatusInputs : StatusStart(u, d, s)
    \/ \E i \in ReqIds : StatusFind(i)
    \/ \E i \in ReqIds : StatusCheck(i)
    \/ \E i \in ReqIds, ok \in BOOLEAN : StatusSave(i, ok)
    \/ \E i \in ReqIds : StatusSaved(i)
    \/ \E i \in ReqIds, ok \in BOOLEAN : StatusNotifySave(i, ok)
    \/ \E i \in ReqIds : StatusNotified(i)
    \/ \E i \in ReqIds : StatusCatch(i)

SpecPrice == Init /\ [][NextPrice]_vars

\* concurrent price updates on the deal d1 alone: its buyer offers 90 and a
\* seller outside the deal offers 100
NextHistory ==
    \/ Room(MaxReqs) /\ \E o \in {<<"c_b1", 90>>, <<"c_s2", 100>>} : PriceStart(o[1], "d1", o[2])
    \/ \E i \in ReqIds : PriceFind(i)
    \/ \E i \in ReqIds : PriceFound(i)
    \/ \E i \in ReqIds, ok \in BOOLEAN : PriceSave(i, ok)
    \/ \E i \in ReqIds : PriceSaved(i)
    \/ \E i \in ReqIds, ok \in BOOLEAN : PriceNotifySave(i, ok)
    \/ \E i \in ReqIds : PriceNotified(i)
    \/ \E i \in ReqIds : PriceCacheSet(i)
    \/ \E i \in ReqIds : PriceExpire(i)
    \/ \E i \in ReqIds : PriceCatch(i)

SpecHistory == Init /\ [][NextHistory]_vars

\* every operation that broadcasts to the room of the deal d1: the buyer
\* sends messages, one after the other, and cancels the deal, the seller s1 joins the room and
\* offers 90; the deal saves may fail, the other store operations succeed
NextBroadcast ==
    \/ Room(MaxReqs) /\ NoneInFlight("send") /\ SendStart("c_b1", "d1")
    \/ \E i \in ReqIds : SendFind(i)
    \/ \E i \in ReqIds : SendFound(i)
    \/ \E i \in ReqIds, ok \in BOOLEAN : SendSave(i, ok)
    \/ \E i \in ReqIds : SendPopulated(i)
    \/ \E i \in ReqIds : SendNotifySave(i, TRUE)
    \/ \E i \in ReqIds : SendNotified(i)
    \/ \E i \in ReqIds : SendLPush(i, TRUE)
    \/ \E i \in ReqIds : SendLTrim(i)
    \/ \E i \in ReqIds : SendExpire(i)
    \/ \E i \in ReqIds : SendCatch(i)
    \/ Room(MaxReqs) /\ PriceStart("c_s1", "d1", 90)
    \/ \E i \in ReqIds : PriceFind(i)
    \/ \E i \in ReqIds : PriceFound(i)
    \/ \E i \in ReqIds, ok \in BOOLEAN : PriceSave(i, ok)
    \/ \E i \in ReqIds : PriceSaved(i)
    \/ \E i \in ReqIds : PriceNotifySave(i, TRUE)
    \/ \E i \in ReqIds : PriceNotified(i)
    \/ \E i \in ReqIds : PriceCacheSet(i)
    \/ \E i \in ReqIds : PriceExpire(i)
    \/ \E i \in ReqIds : PriceCatch(i)
    \/ Room(MaxReqs) /\ StatusStart("b1", "d1", "cancelled")
    \/ \E i \in ReqIds : StatusFind(i)
    \/ \E i \in ReqIds : StatusCheck(i)
    \/ \E i \in ReqIds, ok \in BOOLEAN : StatusSave(i, ok)
    \/ \E i \in ReqIds : StatusSaved(i)
    \/ \E i \in ReqIds : StatusNotifySave(i, TRUE)
    \/ \E i \in ReqIds : StatusNotified(i)
    \/ \E i \in ReqIds : StatusCatch(i)
    \/ Room(MaxReqs) /\ JoinStart("c_s1", "d1")
    \/ \E i \in ReqIds : JoinFind(i)
    \/ \E i \in ReqIds : JoinFound(i)
    \/ \E i \in ReqIds : JoinSAdd(i, TRUE)
    \/ \E i \in ReqIds : JoinExpire(i)

SpecBroadcast == Init /\ [][NextBroadcast]_vars

\* the connection attempts: the buyer and the seller s1 present tokens that
\* verify (their users may be gone), s2 a token that does not, a1 none
Attempts ==
    {<<"c_b1", "valid">>, <<"c_s1", "valid">>, <<"c_s2", "malformed">>,
     <<"c_s2", "expired">>, <<"c_a1", "none">>}

\* clients connect with every kind of credential; admitted sockets join
\* deal rooms and drop
NextConn ==
    \/ \E a \in Attempts : a[2] \in Credentials /\ ConnectStart(a[1], a[2])
    \/ \E c \in Conns, found \in BOOLEAN : ConnectLookup(c, found)
    \/ \E c \in Conns : Disconnect(c)
    \/ Room(MaxReqs) /\ \E c \in Conns, d \in DealIds : Handles(c) /\ JoinStart(c, d)
    \/ \E i \in ReqIds : JoinFind(i)
    \/ \E i \in ReqIds : JoinFound(i)
    \/ \E i \in ReqIds : JoinSAdd(i, TRUE)
    \/ \E i \in ReqIds : JoinExpire(i)

SpecConn == InitConn /\ [][NextConn]_vars

\* no join_deal of the connection c is suspended at an await
Joined(c) ==
    \A i \in ReqIds :
        (reqs[i].kind = "join" /\ reqs[i].conn = c) => reqs[i].pc = "done"

\* the buyer and the seller s1 join the room of d1, while they and the
\* outsider s2 signal typing on d1 and on the absent d2
NextTyping ==
    \/ Room(MaxOrderReqs) /\ \E c \in {"c_b1", "c_s1"} : JoinStart(c, "d1")
    \/ \E i \in ReqIds : JoinFind(i)
    \/ \E i \in ReqIds : JoinFound(i)
    \/ \E i \in ReqIds : JoinSAdd(i, TRUE)
    \/ \E i \in ReqIds : JoinExpire(i)
    \/ Room(MaxOrderReqs) /\ \E c \in {"c_b1", "c_s1", "c_s2"}, d \in DealIds : TypingStart(c, d)
    \/ Room(MaxOrderReqs) /\ \E c \in {"c_b1", "c_s1", "c_s2"}, d \in DealIds : TypingStop(c, d)

SpecTyping == Init /\ [][NextTyping]_vars

\* a step of the send_message invocation i; no store or cache operation
\* fails
SendStep(i) ==
    \/ SendFind(i)
    \/ SendFound(i)
    \/ SendSave(i, TRUE)
    \/ SendPopulated(i)
    \/ SendNotifySave(i, TRUE)
    \/ SendNotified(i)
    \/ SendLPush(i, TRUE)
    \/ SendLTrim(i)
    \/ SendExpire(i)

\* a step of the join_deal invocation i
JoinStep(i) ==
    \/ JoinFind(i)
    \/ JoinFound(i)
    \/ JoinSAdd(i, TRUE)
    \/ JoinExpire(i)

\* every operation that saves a deal: the sellers and the admin accept d1,
\* the seller s1 offers 90 for it, its buyer edits its title and sends a
\* message to it, and the buyer creates a deal from the listing; no store
\* operation fails
NextParties ==
    \/ Room(MaxReqs) /\ \E u \in {"s1", "s2", "a1"} : StatusStart(u, "d1", "in-progress")
    \/ \E i \in ReqIds : StatusFind(i)
    \/ \E i \in ReqIds : StatusCheck(i)
    \/ \E i \in ReqIds : StatusSave(i, TRUE)
    \/ \E i \in ReqIds : StatusSaved(i)
    \/ \E i \in ReqIds : StatusNotifySave(i, TRUE)
    \/ \E i \in ReqIds : StatusNotified(i)
    \/ Room(MaxReqs) /\ NoneInFlight("price") /\ PriceStart("c_s1", "d1", 90)
    \/ \E i \in ReqIds : PriceFind(i)
    \/ \E i \in ReqIds : PriceFound(i)
    \/ \E i \in ReqIds : PriceSave(i, TRUE)
    \/ \E i \in ReqIds : PriceSaved(i)
    \/ \E i \in ReqIds : PriceNotifySave(i, TRUE)
    \/ \E i \in ReqIds : PriceNotified(i)
    \/ \E i \in ReqIds : PriceCacheSet(i)
    \/ \E i \in ReqIds : PriceExpire(i)
    \/ Room(MaxReqs) /\ NoneInFlight("edit") /\ EditStart("b1", "d1", "t1", "")
    \/ \E i \in ReqIds : EditFind(i)
    \/ \E i \in ReqIds : EditFound(i)
    \/ \E i \in ReqIds : EditSave(i, TRUE)
    \/ \E i \in ReqIds : EditSaved(i)
    \/ Room(MaxReqs) /\ NoneInFlight("send") /\ SendStart("c_b1", "d1")
    \/ \E i \in ReqIds : SendStep(i)
    \/ Room(MaxReqs) /\ NoneInFlight("fromListing") /\ FromListingStart("b1", 100)
    \/ \E i \in ReqIds : FromListingSave(i, TRUE)
    \/ \E i \in ReqIds : FromListingNotifySave(i, TRUE)
    \/ \E i \in ReqIds : FromListingNotified(i)

SpecParties == Init /\ [][NextParties]_vars

\* the buyer sends messages to d1, one after the other, the seller s1 marks
\* messages as read, the buyer reads the history and the cached list
\* expires; no store or cache operation fails
NextSeen ==
    \/ Room(MaxOrderReqs) /\ NoneInFlight("send") /\ SendStart("c_b1", "d1")
    \/ \E i \in ReqIds : SendStep(i)
    \/ Room(MaxOrderReqs) /\ NoneInFlight("mark") /\ \E m \in 1..MaxReqs : MarkStart("c_s1", m)
    \/ \E i \in ReqIds : MarkFind(i)
    \/ \E i \in ReqIds : MarkFound(i)
    \/ \E i \in ReqIds : MarkSave(i, TRUE)
    \/ \E i \in ReqIds : MarkSaved(i)
    \/ Room(MaxOrderReqs) /\ NoneInFlight("get") /\ GetStart("b1", "d1")
    \/ \E i \in ReqIds : GetFind(i)
    \/ \E i \in ReqIds : GetFound(i)
    \/ \E i \in ReqIds : GetRead(i)
    \/ \E d \in DealIds : CacheExpire(d)

SpecSeen == Init /\ [][NextSeen]_vars

\* the buyer's two connections and the seller s1 join the room of d1, and
\* leave it when nothing else is in flight; no cache command fails
NextPresence ==
    \/ Room(MaxOrderReqs) /\ NoneInFlight("leave") /\ \E c \in {"c_b1", "c_b2", "c_s1"} : JoinStart(c, "d1")
    \/ \E i \in ReqIds : JoinStep(i)
    \/ Room(MaxOrderReqs) /\ Idle /\ \E c \in {"c_b1", "c_b2", "c_s1"} : "d1" \in rooms[c] /\ LeaveStart(c, "d1")
    \/ \E i \in ReqIds : LeaveSRem(i)

SpecPresence == Init /\ [][NextPresence]_vars

\* the buyer sends messages to d1, which notify its seller; the buyer and
\* the seller s1 mark notifications read and delete them, and the admin
\* deletes d1; the store operations of these routes may fail, those of
\* send_message do not
NextNote ==
    \/ Room(MaxReqs) /\ NoneInFlight("send") /\ SendStart("c_b1", "d1")
    \/ \E i \in ReqIds : SendStep(i)
    \/ Room(MaxReqs) /\ \E k \in {"noteRead", "noteDelete"}, u \in {"b1", "s1"}, n \in 1..MaxReqs : NoteStart(k, u, n)
    \/ \E i \in ReqIds : NoteFind(i)
    \/ \E i \in ReqIds : NoteFound(i)
    \/ \E i \in ReqIds, ok \in BOOLEAN : NoteSave(i, ok)
    \/ \E i \in ReqIds, ok \in BOOLEAN : NoteDelete(i, ok)
    \/ \E i \in ReqIds : NoteSaved(i)
    \/ \E i \in ReqIds : NoteCatch(i)
    \/ Room(MaxReqs) /\ \E u \in {"b1", "s1"} : ReadAllStart(u)
    \/ \E i \in ReqIds, ok \in BOOLEAN : ReadAllUpdate(i, ok)
    \/ Room(MaxReqs) /\ \E u \in {"a1", "s1"} : DropStart(u, "d1")
    \/ \E i \in ReqIds : DropFind(i)
    \/ \E i \in ReqIds : DropFound(i)
    \/ \E i \in ReqIds, ok \in BOOLEAN : DropMessages(i, ok)
    \/ \E i \in ReqIds : DropDocuments(i)
    \/ \E i \in ReqIds, ok \in BOOLEAN : DropNotifications(i, ok)
    \/ \E i \in ReqIds, ok \in BOOLEAN : DropDeal(i, ok)
    \/ \E i \in ReqIds : DropCatch(i)

SpecNote == Init /\ [][NextNote]_vars

\* the buyer and the seller s1 send messages to d1 and to the absent d2,
\* one after the other, while the seller s1 joins the room of d1
NextLive ==
    \/ Room(MaxReqs) /\ NoneInFlight("send") /\ \E c \in {"c_b1", "c_s1"}, d \in DealIds : SendStart(c, d)
    \/ Room(MaxReqs) /\ NoneInFlight("join") /\ JoinStart("c_s1", "d1")
    \/ \E i \in ReqIds : SendStep(i)
    \/ \E i \in ReqIds : JoinStep(i)

\* the event loop resumes every handler whose awaited operation has
\* completed, and every store and cache operation completes
SpecLive ==
    /\ Init /\ [][NextLive]_vars
    /\ WF_vars(\E i \in ReqIds : SendStep(i) \/ JoinStep(i))

\* the buyer and the seller s1 join and leave the room of d1 and send
\* messages to d1, and their connections drop, at any point of a send and
\* once their joins have run to the end
NextDrop ==
    \/ Room(MaxReqs) /\ NoneInFlight("send") /\ \E c \in {"c_b1", "c_s1"} : Handles(c) /\ SendStart(c, "d1")
    \/ Room(MaxReqs) /\ NoneInFlight("join") /\ \E c \in {"c_b1", "c_s1"} : Handles(c) /\ JoinStart(c, "d1")
    \/ Room(MaxReqs) /\ Joined("c_s1") /\ Handles("c_s1") /\ LeaveStart("c_s1", "d1")
    \/ \E i \in ReqIds : SendStep(i)
    \/ \E i \in ReqIds : JoinStep(i)
    \/ \E i \in ReqIds : LeaveSRem(i)
    \/ \E c \in {"c_b1", "c_s1"} : Joined(c) /\ Disconnect(c)

SpecDrop ==
    /\ Init /\ [][NextDrop]_vars
    /\ WF_vars(\E i \in ReqIds : SendStep(i) \/ JoinStep(i) \/ LeaveSRem(i))

(***************************************************************************)
(* Properties.                                                             *)
(***************************************************************************)
StatusReqs == {i \in ReqIds : reqs[i].kind = "status"}

PriceReqs == {i \in ReqIds : reqs[i].kind = "price"}

SendReqs == {i \in ReqIds : reqs[i].kind = "send"}

JoinReqs == {i \in ReqIds : reqs[i].kind = "join"}

Done(i) == reqs[i].pc = "done"

\* the handler i loaded the deal and found it pending with no seller
SawOpen(i) == reqs[i].doc.status = "pending" /\ reqs[i].doc.seller = NULL

\* u is the buyer, the assigned seller or an admin of the deal document
Insider(doc, u) ==
    doc.buyer = u \/ doc.seller = u \/ Role(u) = "admin"

Emitted(ev, i) == \E k \in 1..Len(emits) : emits[k].ev = ev /\ emits[k].req = i

\* C1: a deal whose status is completed or cancelled never changes status
\* again, whatever status requests follow.
C1_TerminalStatusFrozen ==
    [][\A d \in DealIds :
          deals[d].status \in Terminal => deals'[d].status = deals[d].status]_vars

\* C2: in every reachable state, a deal that is in-progress or completed has
\* a seller.
C2_SellerAssigned ==
    \A d \in DealIds :
        deals[d].status \in {"in-progress", "completed"} => deals[d].seller # NULL

\* C3: of two requests by distinct sellers to set in-progress on the same
\* pending deal without a seller, both having found it so, exactly one
\* succeeds and is the deal's seller once both have finished.
C3_OneAcceptanceWins ==
    \A i, j \in StatusReqs :
        (/\ i # j
         /\ reqs[i].deal = reqs[j].deal
         /\ reqs[i].user # reqs[j].user
         /\ \A k \in {i, j} :
               /\ reqs[k].status = "in-progress"
               /\ Role(reqs[k].user) = "seller"
               /\ Done(k)
               /\ SawOpen(k))
        => \E w \in {i, j} :
              /\ reqs[w].saved
              /\ deals[reqs[w].deal].seller = reqs[w].user
              /\ \A l \in {i, j} \ {w} : ~reqs[l].saved

\* C4: a request by a seller (not the buyer) to set in-progress on a pending
\* deal without a seller succeeds: status and seller are persisted together
\* and a status notification for the buyer is created.
C4_SellerAccepts ==
    \A i \in StatusReqs :
        (/\ reqs[i].status = "in-progress"
         /\ Role(reqs[i].user) = "seller"
         /\ reqs[i].user # reqs[i].doc.buyer
         /\ SawOpen(i)
         /\ Done(i))
        => /\ reqs[i].saved
           /\ reqs[i].setSeller = reqs[i].user
           /\ Notification(reqs[i].doc.buyer, "status", reqs[i].deal, i)
                 \in notifications

\* the position of the message with the given id in the store
Persisted(id) == {k \in 1..Len(messages) : messages[k].id = id}

\* C5: every connection in a deal's room receives the new_message
\* broadcasts of the deal in the order in which their messages were
\* persisted.
C5_BroadcastInPersistOrder ==
    \A c \in Conns : \A a, b \in 1..Len(emits) :
        (/\ a < b
         /\ emits[a].ev = "new_message" /\ emits[b].ev = "new_message"
         /\ emits[a].deal = emits[b].deal
         /\ c \in emits[a].to /\ c \in emits[b].to)
        => \A ka \in Persisted(emits[a].req), kb \in Persisted(emits[b].req) :
              ka < kb

\* C6: every new_message, price_updated and deal_status_updated broadcast
\* belongs to an operation whose save has taken effect in the store (the
\* message is stored, the price entry is in the deal's history), so an
\* operation whose save failed broadcasts nothing.
C6_PersistBeforeBroadcast ==
    \A k \in 1..Len(emits) :
        LET e == emits[k] IN
        e.ev \in {"new_message", "price_updated", "deal_status_updated"} =>
            /\ reqs[e.req].saved
            /\ e.ev = "new_message" => Persisted(e.req) # {}
            /\ e.ev = "price_updated" =>
                  \E n \in 1..Len(deals[e.deal].priceHistory) :
                      deals[e.deal].priceHistory[n].id = e.req

\* a message was broadcast after its save, and a price update whose save
\* failed has ended with the error event and no broadcast
C6_Witness ==
    /\ \E i \in SendReqs : reqs[i].saved /\ Emitted("new_message", i)
    /\ \E i \in PriceReqs :
          /\ Done(i) /\ ~reqs[i].saved
          /\ reqs[i].out = "Error updating price"
          /\ ~Emitted("price_updated", i)

\* C7: a connection whose principal is neither buyer, seller nor admin of a
\* deal is in neither its room nor its presence set, and each of its
\* join_deal requests ends with an error event sent to it alone.
C7_JoinAuthorized ==
    /\ \A c \in Conns, d \in DealIds :
          (Exists(d) /\ d \in rooms[c]) => Insider(deals[d], ConnUser(c))
    /\ \A d \in DealIds :
          \A u \in presence[d] : Exists(d) => Insider(deals[d], u)
    /\ \A i \in JoinReqs :
          (Done(i) /\ reqs[i].doc # NoDoc /\ ~Insider(reqs[i].doc, reqs[i].user))
          => /\ reqs[i].out = "Not authorized to join this deal"
             /\ \E k \in 1..Len(emits) :
                   emits[k] = Event("error", reqs[i].deal, {reqs[i].conn}, i)

\* an outsider's join was refused while the buyer is in the room and in the
\* presence set
C7_Witness ==
    /\ \E i \in JoinReqs :
          /\ reqs[i].out = "Not authorized to join this deal"
          /\ reqs[i].deal \notin rooms[reqs[i].conn]
          /\ reqs[i].user \notin presence[reqs[i].deal]
    /\ "d1" \in rooms["c_b1"]
    /\ "b1" \in presence["d1"]

\* C8: an update_price on a deal the handler found completed or cancelled
\* is rejected: nothing is saved and no price_updated is broadcast.
C8_TerminalPriceRejected ==
    \A i \in PriceReqs :
        (Done(i) /\ reqs[i].doc.status \in Terminal)
        => ~reqs[i].saved /\ ~Emitted("price_updated", i)

\* C9: an update_price by a principal who is not buyer, assigned seller or
\* admin of the deal is rejected with an error and saves nothing; one by the
\* assigned seller that was saved added exactly one entry.
C9_OutsiderPriceRejected ==
    \A i \in PriceReqs :
        /\ (Done(i) /\ reqs[i].doc # NoDoc
               /\ ~Insider(reqs[i].doc, reqs[i].user))
           => ~reqs[i].saved /\ Emitted("error", i)
        /\ (reqs[i].saved /\ Exists(reqs[i].deal))
           => Cardinality({n \in 1..Len(deals[reqs[i].deal].priceHistory) :
                  deals[reqs[i].deal].priceHistory[n].id = i}) = 1

\* the entries of a price history that the update_price i added
EntriesOf(h, i) == {n \in 1..Len(h) : h[n].id = i}

IsSuffix(old, new) ==
    /\ Len(old) <= Len(new)
    /\ SubSeq(new, Len(new) - Len(old) + 1, Len(new)) = old

\* C10: the price history of a deal holds its first entry and exactly one
\* entry, unaltered, for every update_price whose save succeeded, and none
\* for the others; every step keeps the entries present, in their order.
C10_HistoryAppendOnly ==
    /\ [](\A d \in DealIds : Exists(d) =>
            LET h == deals[d].priceHistory
                ok == {i \in PriceReqs : reqs[i].deal = d /\ reqs[i].saved} IN
            /\ Len(h) = 1 + Cardinality(ok)
            /\ \A i \in ok :
                  \E n \in 1..Len(h) :
                      /\ EntriesOf(h, i) = {n}
                      /\ h[n] = PriceEntry(reqs[i].price, reqs[i].user, i)
            /\ \A i \in PriceReqs \ ok : EntriesOf(h, i) = {})
    /\ [][\A d \in DealIds : (Exists(d) /\ deals'[d] # NoDoc) =>
            IsSuffix(deals[d].priceHistory, deals'[d].priceHistory)]_vars

\* two updates loaded the same version of the deal; one was saved, the
\* other's save found the version changed and the handler reported the error
C10_Witness ==
    \E i, j \in PriceReqs :
        /\ i # j
        /\ reqs[i].deal = reqs[j].deal
        /\ reqs[i].doc.v = reqs[j].doc.v
        /\ reqs[i].doc # NoDoc /\ reqs[j].doc # NoDoc
        /\ reqs[i].saved /\ Done(i)
        /\ ~reqs[j].saved /\ reqs[j].out = "Error updating price"
        /\ Len(deals[reqs[i].deal].priceHistory) = 2

GetReqs == {i \in ReqIds : reqs[i].kind = "get"}

\* no handler invocation other than i is in flight
Quiet(i) == \A j \in ReqIds \ {i} : Done(j)

\* the step completes the getMessages call i with a 200 response
Answers(i) ==
    /\ reqs[i].kind = "get" /\ reqs[i].pc # "done"
    /\ reqs'[i].pc = "done" /\ reqs'[i].out = "200"

MarkReqs == {i \in ReqIds : reqs[i].kind = "mark"}

\* the message_read broadcasts of the invocation i
ReadEvents(i) ==
    {k \in 1..Len(emits) : emits[k].ev = "message_read" /\ emits[k].req = i}

\* messages differ from old to new in nothing but read flags
SameButRead(old, new) ==
    /\ Len(new) = Len(old)
    /\ \A k \in 1..Len(old) : [new[k] EXCEPT !.read = old[k].read] = old[k]

\* C13: the persisted read flag is monotonic and mark_read is idempotent: a
\* flag that is true is never set back to false, every mark_read that
\* succeeds leaves read = true and has produced exactly one message_read
\* broadcast, a second one on the same message included, and a mark_read
\* changes nothing else in the store, the cache or the rooms.
C13_MarkReadIdempotent ==
    /\ [](\A i \in MarkReqs :
            /\ Cardinality(ReadEvents(i)) <= 1
            /\ (Done(i) /\ reqs[i].out = "ok")
               => /\ FindMessage(reqs[i].msg).read
                  /\ Cardinality(ReadEvents(i)) = 1)
    /\ [][/\ \A k \in 1..Len(messages) :
               messages[k].read
               => Len(messages') >= k /\ messages'[k] = messages[k]
          /\ \A i \in MarkReqs :
               reqs'[i] # reqs[i]
               => /\ SameButRead(messages, messages')
                  /\ \A k \in 1..Len(messages) :
                        messages[k].id # reqs[i].msg
                        => messages'[k] = messages[k]
                  /\ UNCHANGED <<deals, notifications, rooms, presence,
                                 cacheMsgs, cacheRead, cacheDeal>>]_vars

\* mark_read was applied twice to one message: both succeeded, each with its
\* broadcast, and the message is read
C13_Witness ==
    \E i, j \in MarkReqs :
        /\ i < j /\ reqs[i].msg = reqs[j].msg
        /\ Done(i) /\ reqs[i].out = "ok" /\ Done(j) /\ reqs[j].out = "ok"
        /\ FindMessage(reqs[i].msg).read
        /\ Cardinality(ReadEvents(i)) = 1 /\ Cardinality(ReadEvents(j)) = 1

EditReqs == {i \in ReqIds : reqs[i].kind = "edit"}

\* the deal the handler i loaded admits an edit by its requester
EditAdmitted(i) ==
    /\ reqs[i].doc.status \in {"pending", "in-progress"}
    /\ Insider(reqs[i].doc, reqs[i].user)

HasEffects(i) ==
    \/ \E k \in 1..Len(emits) : emits[k].req = i
    \/ \E n \in notifications : n.req = i

\* C16: a status request by a principal who is neither the buyer, nor the
\* assigned seller, nor an admin of the deal it found is answered 403, saves
\* nothing (status and seller stay as they are) and produces no notification
\* and no broadcast.
C16_StatusUnauthorized ==
    /\ [](\A i \in StatusReqs :
            (reqs[i].doc # NoDoc /\ ~Insider(reqs[i].doc, reqs[i].user))
            => /\ reqs[i].pc \in {"found", "done"}
               /\ Done(i) => reqs[i].out = "403"
               /\ ~reqs[i].saved /\ reqs[i].setSeller = NULL
               /\ ~HasEffects(i))
    /\ [][\A i \in StatusReqs :
            (/\ reqs[i].doc # NoDoc /\ ~Insider(reqs[i].doc, reqs[i].user)
             /\ reqs'[i] # reqs[i])
            => UNCHANGED <<deals, notifications, emits>>]_vars

\* the seller s2, outside the deal d1, asked for a status change and got 403;
\* the deal is as it was created
C16_Witness ==
    \E i \in StatusReqs :
        /\ reqs[i].user = "s2" /\ Done(i) /\ reqs[i].out = "403"
        /\ reqs[i].doc # NoDoc
        /\ deals["d1"].status = "pending" /\ ~HasEffects(i)

\* C17: a request for in-progress by a principal whose role is neither seller
\* nor admin is always rejected and saves nothing, and no deal becomes
\* in-progress through a request of such a principal.
C17_BuyerCannotAccept ==
    /\ [](\A i \in StatusReqs :
            (/\ reqs[i].status = "in-progress"
             /\ Role(reqs[i].user) \notin {"seller", "admin"}
             /\ reqs[i].doc # NoDoc)
            => /\ reqs[i].pc \in {"found", "done"}
               /\ Done(i) => reqs[i].out = "403"
               /\ ~reqs[i].saved)
    /\ [][\A d \in DealIds :
            (deals'[d].status = "in-progress" /\ deals[d].status # "in-progress")
            => \E i \in StatusReqs :
                  /\ reqs[i].deal = d /\ reqs[i].pc = "save" /\ reqs'[i].saved
                  /\ Role(reqs[i].user) \in {"seller", "admin"}]_vars

\* the buyer b1 asked to move its own pending deal to in-progress and got
\* 403, while the deal stayed pending
C17_Witness ==
    \E i \in StatusReqs :
        /\ reqs[i].user = "b1" /\ reqs[i].status = "in-progress"
        /\ Done(i) /\ reqs[i].out = "403"
        /\ reqs[i].doc.status = "pending" /\ deals["d1"].status = "pending"

\* the notifications of messages, price updates and status changes
ActionNotifications ==
    {n \in notifications : n.type \in {"message", "price", "status"}}

\* C18: the notification of a message, a price update or a status change by
\* P goes to the one of buyer and seller that is not P: to the seller when P
\* is the buyer, otherwise to the buyer; never to P, and not at all when that
\* party is not assigned.
C18_NotifyOtherParty ==
    \A n \in ActionNotifications :
        LET P == reqs[n.req].user
            deal == deals[n.deal] IN
        /\ n.user # NULL /\ n.user # P
        /\ n.user \in {deal.buyer, deal.seller}
        /\ P = deal.buyer => n.user = deal.seller
        /\ P # deal.buyer => n.user = deal.buyer

\* the buyer's message was notified to the seller s1 and the seller's price
\* update to the buyer
C18_Witness ==
    /\ \E n \in ActionNotifications :
          n.type = "message" /\ reqs[n.req].user = "b1" /\ n.user = "s1"
    /\ \E n \in ActionNotifications :
          n.type = "price" /\ reqs[n.req].user = "s1" /\ n.user = "b1"

CreateReqs == {i \in ReqIds : reqs[i].kind = "create"}

C20_CacheFailureSilent ==
    \A i \in ReqIds :
        reqs[i].cacheErr
        => /\ ~Emitted("error", i)
           /\ Done(i) => reqs[i].out = "ok"
           /\ reqs[i].kind = "send" => Persisted(i) # {}

LeaveReqs == {i \in ReqIds : reqs[i].kind = "leave"}

\* C21: events of one connection are handled one at a time in arrival order:
\* when join_deal{D} is immediately followed by leave_deal{D} on the same
\* connection and both handlers have finished, the connection is outside the
\* room of D and its user is absent from D's presence set.
C21_PerConnectionOrder ==
    \A i \in JoinReqs, j \in LeaveReqs :
        (/\ j = i + 1 /\ j = Len(reqs)
         /\ reqs[i].conn = reqs[j].conn /\ reqs[i].deal = reqs[j].deal
         /\ Done(i) /\ Done(j))
        => /\ reqs[i].deal \notin rooms[reqs[i].conn]
           /\ reqs[i].user \notin presence[reqs[i].deal]

\* the invocations of socket event handlers
SocketReqs == {i \in ReqIds : reqs[i].conn \in Conns}

Rejected(i) ==
    /\ Done(i)
    /\ \/ reqs[i].kind \in {"join", "send", "price"} /\ reqs[i].doc = NoDoc
       \/ reqs[i].kind = "mark" /\ reqs[i].mdoc = NoMsg
       \/ reqs[i].kind = "join" /\ ~MayJoin(reqs[i].doc, reqs[i].user)

\* C23: every rejected socket operation has sent one error event, to the
\* requesting connection alone, which stays connected; it has saved nothing
\* and has not put the connection into the room.
C23_RejectionsScoped ==
    \A i \in SocketReqs :
        Rejected(i)
        => /\ \E k \in 1..Len(emits) :
                 /\ emits[k].ev = "error" /\ emits[k].req = i
                 /\ emits[k].to = {reqs[i].conn}
           /\ \A k \in 1..Len(emits) : emits[k].req = i => emits[k].ev = "error"
           /\ Open(reqs[i].conn)
           /\ ~reqs[i].saved

FromListingReqs == {i \in ReqIds : reqs[i].kind = "fromListing"}

\* the deal document the creation i persisted is pending, carries the
\* offered price and a price history of the one entry (price, buyer)
PersistedAsOffered(i) ==
    /\ reqs[i].saved
    /\ reqs[i].doc.status = "pending"
    /\ reqs[i].doc.buyer = reqs[i].user
    /\ reqs[i].doc.price = reqs[i].price
    /\ reqs[i].doc.priceHistory = <<PriceEntry(reqs[i].price, reqs[i].user, i)>>

\* C24: the creation of a deal by a buyer, standalone or from a listing,
\* succeeds unless the store itself refuses the save: the deal is persisted
\* pending with the offered price and a one-entry price history; a standalone
\* deal has no seller and one notification of type deal per seller.
C24_CreationSucceeds ==
    /\ \A i \in CreateReqs :
          (Done(i) /\ Role(reqs[i].user) = "buyer" /\ ~reqs[i].storeErr)
          => /\ PersistedAsOffered(i)
             /\ reqs[i].doc.seller = NULL
             /\ \A k \in 1..Len(Sellers) :
                   Notification(Sellers[k], "deal", reqs[i].deal, i)
                      \in notifications
    /\ \A i \in FromListingReqs :
          reqs[i].saved => PersistedAsOffered(i) /\ reqs[i].doc.seller = ListingSeller

\* the send_message i has run to its end: its message is stored, new_message
\* was broadcast, and the counter-party, when the deal has one, has its
\* notification in the store and published on its personal room
Delivered(i) ==
    LET r == reqs[i]
        other == IF r.doc.buyer = r.user THEN r.doc.seller ELSE r.doc.buyer IN
    /\ Persisted(i) # {}
    /\ Emitted("new_message", i)
    /\ other # NULL
       => /\ [user |-> other, type |-> "message", deal |-> r.deal, req |-> i,
              read |-> FALSE] \in notifications
          /\ \E k \in 1..Len(emits) :
                /\ emits[k].ev = "new_notification" /\ emits[k].req = i
                /\ emits[k].to = {c \in Conns : Open(c) /\ socks[c].personal = other}

\* the event added by this step
Added == emits'[Len(emits')]

\* C25: under fair scheduling and without failures, every send_message on an
\* existing deal leads to the message persisted, new_message broadcast and
\* the counter-party notified; each new_message goes to exactly the
\* connections that are in the deal room when it is emitted.
C25_SendCompletes ==
    /\ \A i \in 1..MaxReqs :
          [](((i \in SendReqs) /\ Exists(reqs[i].deal))
                => <>((i \in SendReqs) /\ Delivered(i)))
    /\ [][(Len(emits') = Len(emits) + 1 /\ Added.ev = "new_message")
            => Added.to = {c \in Conns : Added.deal \in rooms[c]}]_vars

\* a message of the buyer was delivered to the seller s1, who was in the
\* room of the deal when it was broadcast
C25_Witness ==
    \E i \in SendReqs :
        /\ reqs[i].user = "b1" /\ Done(i) /\ Delivered(i)
        /\ reqs[i].doc.seller = "s1"
        /\ \E k \in 1..Len(emits) :
              emits[k].ev = "new_message" /\ emits[k].req = i /\ "c_s1" \in emits[k].to

Closed(c) == socks[c].state = "closed"

Newest(list, n) ==
    IF Len(list) <= n THEN list ELSE SubSeq(list, Len(list) - n + 1, Len(list))

\* the step ends the write-through of the send_message i
WritesThrough(i) ==
    /\ reqs[i].kind = "send" /\ reqs[i].pc = "expire"
    /\ reqs'[i].pc = "done"

\* C27: when the write-through of a send_message completes and nothing else
\* is in flight, the cached list of the deal holds at most 50 entries, which
\* are exactly the most recently persisted messages of the deal (all of them
\* when there are fewer than 50), whatever expiries and reads came before.
C27_CacheHoldsNewest ==
    [][\A i \in ReqIds :
          (WritesThrough(i) /\ Quiet(i))
          => /\ Len(cacheMsgs'[reqs[i].deal]) <= CacheWindow
             /\ Elements(cacheMsgs'[reqs[i].deal])
                   = Elements(Newest(StoredList(reqs[i].deal), CacheWindow))]_vars

\* the list of message ids is in the order of creation, oldest first
OldestFirst(list) ==
    \A a, b \in 1..Len(list) :
        a < b => FindMessage(list[a]).at < FindMessage(list[b]).at

TypingReqs == {i \in ReqIds : reqs[i].kind \in {"typing_start", "typing_stop"}}

\* the step handles a typing_start or a typing_stop event
Types ==
    /\ Len(reqs') = Len(reqs) + 1
    /\ reqs'[Len(reqs')].kind \in {"typing_start", "typing_stop"}

\* C29: typing_start and typing_stop change nothing in the durable store,
\* in the cache and in the rooms; their one event, user_typing or
\* user_stop_typing, goes to the connections in the deal room other than the
\* sender, and never to the sender.
C29_TypingEphemeral ==
    /\ [](\A k \in 1..Len(emits) :
            emits[k].ev \in {"user_typing", "user_stop_typing"}
            => reqs[emits[k].req].conn \notin emits[k].to)
    /\ [][Types =>
            LET r == reqs'[Len(reqs')] IN
            /\ UNCHANGED <<deals, messages, notifications, rooms, presence,
                           cacheMsgs, cacheRead, cacheDeal, listTtl, socks>>
            /\ Len(emits') = Len(emits) + 1
            /\ Added.ev = (IF r.kind = "typing_start"
                           THEN "user_typing" ELSE "user_stop_typing")
            /\ Added.to = {c \in Conns : r.deal \in rooms[c]} \ {r.conn}]_vars

\* the buyer, in the room of d1 together with the seller s1, signalled
\* typing: the event went to the seller's connection alone
C29_Witness ==
    \E i \in TypingReqs :
        /\ reqs[i].conn = "c_b1" /\ reqs[i].kind = "typing_start"
        /\ "d1" \in rooms["c_b1"]
        /\ \E k \in 1..Len(emits) :
              /\ emits[k].req = i /\ emits[k].ev = "user_typing"
              /\ emits[k].to = {"c_s1"}

(***************************************************************************)
(* C30: a notification is changed only through its read flag and only by   *)
(* its owner, and is deleted only by its owner or by the deletion of its   *)
(* deal: a mark-read or delete request by any other user is rejected and   *)
(* leaves the notification unchanged, and after an admin deletes a deal no *)
(* notification or message referring to that deal remains.                 *)
(***************************************************************************)
NoteReqs == {i \in ReqIds : reqs[i].kind \in {"noteRead", "noteDelete"}}

DropReqs == {i \in ReqIds : reqs[i].kind = "drop"}

\* the request i takes this step
Steps(i) == reqs'[i] # reqs[i]

\* every notification stays as it is, or its owner's request marks it read
\* or deletes it, or the deletion of its deal removes it
OwnerOnlyStep ==
    \A x \in notifications :
        \/ x \in notifications'
        \/ /\ [x EXCEPT !.read = TRUE] \in notifications'
           /\ \E i \in ReqIds :
                 /\ reqs[i].kind \in {"noteRead", "readAll"}
                 /\ reqs[i].user = x.user
                 /\ Steps(i)
        \/ /\ \A y \in notifications' : y.req # x.req
           /\ \E i \in ReqIds :
                 /\ Steps(i)
                 /\ \/ reqs[i].kind = "noteDelete" /\ reqs[i].user = x.user
                    \/ reqs[i].kind = "drop" /\ reqs[i].deal = x.deal

\* a request for another user's notification ends with 403
OthersRejected ==
    \A i \in NoteReqs :
        (Done(i) /\ reqs[i].ndoc # NoNote /\ reqs[i].ndoc.user # reqs[i].user)
            => (reqs[i].out = "403" /\ ~reqs[i].saved)

\* nothing refers to a deal whose deletion was answered with 200
Cascaded ==
    \A i \in DropReqs :
        (Done(i) /\ reqs[i].out = "200")
            => /\ \A k \in 1..Len(messages) : messages[k].deal # reqs[i].deal
               /\ \A x \in notifications : x.deal # reqs[i].deal

C30_NotificationsGuarded ==
    /\ [][OwnerOnlyStep]_vars
    /\ []OthersRejected
    /\ []Cascaded

\* C31: for each sent message the steps happen in the order persist, then
\* cache-append, then broadcast: at the moment new_message(M) is emitted to
\* the deal channel, M is in the durable store and in the deal's cached
\* message list.
C31_PersistCacheBroadcast ==
    [][(Len(emits') = Len(emits) + 1 /\ Added.ev = "new_message")
          => /\ Persisted(Added.req) # {}
             /\ Added.req \in Elements(cacheMsgs'[Added.deal])]_vars

\* C32: whenever no update_price is in flight for a deal and a snapshot of
\* the deal is cached, the snapshot's price equals the durable deal's price,
\* also after two update_price operations from different connections ran
\* concurrently.
C32_SnapshotPriceFresh ==
    \A d \in DealIds :
        (/\ \A i \in PriceReqs : reqs[i].deal = d => Done(i)
         /\ cacheDeal[d] # NoSnap
         /\ Exists(d))
            => cacheDeal[d].price = deals[d].price

\* the positions in the event sequence of the price_updated broadcasts of d
PriceEmits(d) ==
    {k \in 1..Len(emits) : emits[k].ev = "price_updated" /\ emits[k].deal = d}

\* the position in the deal's history, newest first, of the entry of request i
EntryAt(d, i) ==
    {n \in 1..Len(deals[d].priceHistory) : deals[d].priceHistory[n].id = i}

\* C33: price_updated broadcasts are emitted in the order the price entries
\* were persisted, so once all in-flight update_price operations on a deal
\* have finished, the price carried by the last price_updated broadcast
\* equals the deal's persisted current price.
C33_PriceBroadcastOrder ==
    \A d \in DealIds :
        /\ \A a, b \in PriceEmits(d) :
              a < b => \A na \in EntryAt(d, emits[a].req),
                          nb \in EntryAt(d, emits[b].req) : nb < na
        /\ (/\ \A i \in PriceReqs : reqs[i].deal = d => Done(i)
            /\ PriceEmits(d) # {}
            /\ Exists(d))
              => LET last == CHOOSE k \in PriceEmits(d) :
                                \A j \in PriceEmits(d) : j <= k IN
                 reqs[emits[last].req].price = deals[d].price

\* C34: ignoring expiry, whenever at least one connection of a user is
\* joined to the channel of a deal and no join_deal or leave_deal of the
\* user is in flight, the user's id is in the deal's presence set; in
\* particular the user stays in the set when one of two joined connections
\* leaves.
C34_PresenceCoversRoom ==
    \A u \in Users, d \in DealIds :
        (/\ \E c \in Conns : ConnUser(c) = u /\ d \in rooms[c]
         /\ \A i \in JoinReqs \cup LeaveReqs : reqs[i].user = u => Done(i))
            => u \in presence[d]

\* C35: seller assignment is write-once and the buyer is immutable: once a
\* deal's seller is non-null, no status request, edit, price update or
\* message changes or clears it, and a deal's buyer never changes after
\* creation.
C35_PartiesFixed ==
    [][\A d \in DealIds :
          (Exists(d) /\ deals'[d] # NoDoc)
              => /\ deals'[d].buyer = deals[d].buyer
                 /\ deals[d].seller # NULL => deals'[d].seller = deals[d].seller]_vars

\* the admin accepted the deal of the seller s1 and s1 offered a price for
\* it; both saves took effect and the deal still has its buyer and seller
C35_Witness ==
    /\ \E i \in StatusReqs :
          /\ Done(i) /\ reqs[i].saved /\ reqs[i].user = "a1"
          /\ reqs[i].doc.seller = "s1"
    /\ \E j \in PriceReqs : Done(j) /\ reqs[j].saved /\ reqs[j].doc.seller = "s1"
    /\ deals["d1"].seller = "s1" /\ deals["d1"].buyer = "b1"
    /\ deals["d1"].status = "in-progress" /\ deals["d1"].price = 90

\* C36: in every reachable state with no update_price in flight, a deal's
\* price equals the price of the most recently inserted priceHistory entry
\* (the entry at the head of the list), and priceHistory is never empty.
C36_PriceIsHeadOfHistory ==
    \A d \in DealIds :
        Exists(d) =>
            /\ deals[d].priceHistory # <<>>
            /\ (\A i \in PriceReqs : reqs[i].deal = d => Done(i))
                  => deals[d].price = deals[d].priceHistory[1].price

\* two price updates of d1 were saved one after the other, the second
\* returning to the first price, and nothing is in flight
C36_Witness ==
    /\ \A i \in PriceReqs : Done(i)
    /\ Len(deals["d1"].priceHistory) = 3
    /\ deals["d1"].priceHistory[2].price = 90
    /\ deals["d1"].priceHistory[1].price = 100
    /\ deals["d1"].price = 100

\* C37: every persisted message of a deal and every new_message broadcast was
\* sent by a principal who at send time was the deal's buyer, its assigned
\* seller or an admin: a send_message from a principal outside the deal
\* persists nothing, broadcasts nothing and creates no notification.
C37_SendersBelong ==
    \A i \in SendReqs :
        (\/ Persisted(i) # {}
         \/ \E k \in 1..Len(emits) : emits[k].req = i /\ emits[k].ev # "error"
         \/ \E x \in notifications : x.req = i)
            => MayJoin(reqs[i].doc, reqs[i].user)

\* C38: an error event returned for send_message or update_price means the
\* operation had no effect: whenever the caller receives "Error sending
\* message" or "Error updating price", no message was persisted or broadcast
\* and the deal's price and priceHistory are unchanged, also when the
\* failing step is the notification save or a cache write.
C38_ErrorMeansNoEffect ==
    \A k \in 1..Len(emits) :
        LET i == emits[k].req IN
        (/\ emits[k].ev = "error" /\ emits[k].to # {}
         /\ reqs[i].kind \in {"send", "price"}
         /\ reqs[i].doc # NoDoc)
            => /\ ~reqs[i].saved
               /\ Persisted(i) = {}
               /\ \A j \in 1..Len(emits) :
                     emits[j].req = i =>
                        emits[j].ev \notin {"new_message", "price_updated"}

NoDuplicates(list) == Cardinality(Elements(list)) = Len(list)

====
